---- MODULE Spec2Model ----
(***************************************************************************)
(* Model of the PEXT engine of fisk: the software PEXT strategies of       *)
(* pext.hpp, the block-table preprocessing, and the self-tuning            *)
(* AdaptivePext dispatcher of utils.hpp.                                   *)
(*                                                                         *)
(* A std::uint64_t is modelled as the set of its 1-bit positions, a subset *)
(* of 0..63 (TLC's integers are too narrow for 64-bit words).  AND is      *)
(* intersection, OR is union, shifts move the positions and drop those     *)
(* leaving 0..63, and addition is a ripple-carry adder modulo 2^64.        *)
(***************************************************************************)
EXTENDS Integers, Sequences, FiniteSets, TLC

\* ------------------------------------------------------------------------
\*  64-bit words
\* ------------------------------------------------------------------------

\* Width of std::uint64_t, the scan bound of the preprocessing loop.
WordBits == 64

\* Number of entries of PextBlockTable::masks and ::shifts.
TableSize == 32

Bits == 0 .. (WordBits - 1)

Zero64 == {}

AllOnes64 == Bits

And64(a, b) == a \cap b

Or64(a, b) == a \cup b

\* x >> s for 0 <= s < 64
ShiftR64(x, s) == { b - s : b \in { c \in x : c >= s } }

\* x << s for 0 <= s < 64; bits shifted past bit 63 are lost
ShiftL64(x, s) == { b + s : b \in { c \in x : c + s < WordBits } }

\* (1 << len) - 1 for 0 <= len < 64
LowOnes64(len) == { b \in Bits : b < len }

TestBit(x, b) == b \in x

ByteBits == 8

\* static_cast<std::uint8_t>(x >> (8 * i))
ByteOf(x, i) == { b - ByteBits * i : b \in { c \in x : c >= ByteBits * i /\ c < ByteBits * (i + 1) } }

\* a byte as a number, and back
ByteVal(s) ==
    LET w(b) == IF b \in s THEN 2 ^ b ELSE 0
    IN  w(0) + w(1) + w(2) + w(3) + w(4) + w(5) + w(6) + w(7)

ByteSet(n) == { b \in 0 .. (ByteBits - 1) : (n \div (2 ^ b)) % 2 = 1 }

\* byte-wise addition with carry; the carry out of the top byte is lost
RECURSIVE AddBytes(_, _, _, _, _)
AddBytes(a, b, i, carry, acc) ==
    IF i >= ByteBits THEN acc
    ELSE LET n == ByteVal(ByteOf(a, i)) + ByteVal(ByteOf(b, i)) + carry
         IN  AddBytes(a, b, i + 1, n \div (2 ^ ByteBits),
                      acc \cup { ByteBits * i + k : k \in ByteSet(n % (2 ^ ByteBits)) })

\* a + b modulo 2^64
Add64(a, b) == AddBytes(a, b, 0, 0, {})

MinBit_highest(x) == CHOOSE b \in x : \A c \in x : b >= c

\* position of the bit x & -x isolates
MinBit(x) == CHOOSE b \in x : \A c \in x : b <= c

\* ------------------------------------------------------------------------
\*  pext_sw_bitloop_u64
\* ------------------------------------------------------------------------

\* One iteration per set bit of mask: lsb = mask & -mask is the lowest set
\* bit; out_bit = 1 << k, which becomes 0 once k reaches 64.  The result is
\* out together with the number k of iterations the loop has run.
RECURSIVE BitloopIter(_, _, _, _)
BitloopIter(x, mask, out, k) ==
    IF mask = Zero64 THEN [ out |-> out, iters |-> k ]
    ELSE LET lsb == MinBit(mask)
         IN  BitloopIter(x, mask \ {lsb},
                         IF TestBit(x, lsb) /\ k < WordBits THEN out \cup {k} ELSE out,
                         k + 1)

pext_sw_bitloop_u64_run(x, mask) == BitloopIter(x, mask, Zero64, 0)

pext_sw_bitloop_u64(x, mask) == pext_sw_bitloop_u64_run(x, mask).out

\* ------------------------------------------------------------------------
\*  pext_sw_split32_u64
\* ------------------------------------------------------------------------

HalfBits == 32

\* static_cast<std::uint32_t>(x)
Low32(x) == { b \in x : b < HalfBits }

\* the lambda pext32: the bit loop on std::uint32_t; out_bit = 1 << k is 0
\* once k reaches 32
RECURSIVE Pext32Iter(_, _, _, _)
Pext32Iter(xx, mm, out, k) ==
    IF mm = Zero64 THEN out
    ELSE LET lsb == MinBit(mm)
         IN  Pext32Iter(xx, mm \ {lsb},
                        IF TestBit(xx, lsb) /\ k < HalfBits THEN out \cup {k} ELSE out,
                        k + 1)

pext32(xx, mm) == Pext32Iter(xx, mm, Zero64, 0)

SplitShift_half(m_lo) == HalfBits

\* unsigned shift = __builtin_popcount(m_lo)
SplitShift(m_lo) == Cardinality(m_lo)

\* out_lo | (static_cast<std::uint64_t>(out_hi) << shift)
pext_sw_split32_u64(x, mask) ==
    LET x_lo   == Low32(x)
        x_hi   == Low32(ShiftR64(x, HalfBits))
        m_lo   == Low32(mask)
        m_hi   == Low32(ShiftR64(mask, HalfBits))
        out_lo == pext32(x_lo, m_lo)
        shift  == SplitShift(m_lo)
        out_hi == pext32(x_hi, m_hi)
    IN  Or64(out_lo, ShiftL64(out_hi, shift))

\* ------------------------------------------------------------------------
\*  PextBlockTable and its preprocessing
\* ------------------------------------------------------------------------

TableIdx == 0 .. (TableSize - 1)

PextBlockTable_uninitialised ==
    [ masks |-> [ i \in TableIdx |-> IF i = 0 THEN AllOnes64 ELSE Zero64 ],
      shifts |-> [ i \in TableIdx |-> 0 ] ]

\* std::array members are value-initialised to zero
PextBlockTable == [ masks |-> [ i \in TableIdx |-> Zero64 ],
                    shifts |-> [ i \in TableIdx |-> 0 ] ]

make_run_mask64_nostart(start, len) ==
    IF len = 0 THEN Zero64
    ELSE IF len >= WordBits THEN AllOnes64
    ELSE LowOnes64(len)

make_run_mask64_unguarded(start, len) ==
    IF len = 0 THEN Zero64
    ELSE ShiftL64(LowOnes64(len % WordBits), start)

make_run_mask64(start, len) ==
    IF len = 0 THEN Zero64
    ELSE IF len >= WordBits THEN AllOnes64
    ELSE ShiftL64(LowOnes64(len), start)

\* The inner while loop: advance bit over the run of ones.
RunEnd_one_bit(mask, bit) == bit + 1

RECURSIVE RunEnd(_, _)
RunEnd(mask, bit) ==
    IF bit < WordBits /\ TestBit(mask, bit) THEN RunEnd(mask, bit + 1) ELSE bit

\* unsigned shift = start - out_pos.  A wrapped difference (out_pos > start)
\* is kept as the negative integer with the same two's-complement bits.
RunShift_from_zero(start, out_pos) == start

RunShift(start, out_pos) == start - out_pos

\* out_pos += len
NextOutPos(out_pos, len) == out_pos + len

TableFull_at_31(arr_idx) == arr_idx = TableSize - 1

\* the sanity check  if( arr_idx == 32 ) throw
TableFull(arr_idx) == arr_idx = TableSize

\* The outer while loop.  st = [bit, out_pos, arr_idx, table, error].
RECURSIVE PreprocessLoop(_, _)
PreprocessLoop(mask, st) ==
    IF st.bit >= WordBits THEN st
    ELSE IF ~TestBit(mask, st.bit)
         THEN PreprocessLoop(mask, [st EXCEPT !.bit = st.bit + 1])
    ELSE LET start == st.bit
             bit   == RunEnd(mask, st.bit)
             end   == bit - 1
             len   == end - start + 1
             block_mask == make_run_mask64(start, len)
             shift == RunShift(start, st.out_pos)
         IN  IF TableFull(st.arr_idx)
             THEN [st EXCEPT !.bit = bit, !.error = "runtime_error"]
             ELSE PreprocessLoop(mask,
                    [ bit     |-> bit,
                      out_pos |-> NextOutPos(st.out_pos, len),
                      arr_idx |-> st.arr_idx + 1,
                      table   |-> [ masks  |-> [st.table.masks EXCEPT ![st.arr_idx] = block_mask],
                                    shifts |-> [st.table.shifts EXCEPT ![st.arr_idx] = shift] ],
                      error   |-> st.error ])

\* Result of the call: the final loop state; .error = "none" means the
\* table in .table was returned, anything else that the call threw.
pext_sw_block_table_preprocess_u64(mask) ==
    PreprocessLoop(mask, [ bit |-> 0, out_pos |-> 0, arr_idx |-> 0,
                           table |-> PextBlockTable, error |-> "none" ])

\* ------------------------------------------------------------------------
\*  pext_sw_block_table_u64
\* ------------------------------------------------------------------------

\* pb.masks[i] and pb.shifts[i].  The arrays have 32 entries; an index of 32
\* or more is read from whatever memory follows them: mem is that memory, a
\* sequence of (mask, shift) words, followed by a zero word.
ReadMask(pb, mem, i) ==
    IF i < TableSize THEN pb.masks[i]
    ELSE IF i - TableSize + 1 <= Len(mem) THEN mem[i - TableSize + 1].mask
    ELSE Zero64

ReadShift(pb, mem, i) ==
    IF i < TableSize THEN pb.shifts[i]
    ELSE IF i - TableSize + 1 <= Len(mem) THEN mem[i - TableSize + 1].shift
    ELSE 0

RECURSIVE BlockTableLoop(_, _, _, _, _)
BlockTableLoop(x, pb, mem, i, res) ==
    IF ReadMask(pb, mem, i) = Zero64 THEN [ res |-> res, i |-> i ]
    ELSE BlockTableLoop(x, pb, mem, i + 1,
             Or64(res, ShiftR64(And64(x, ReadMask(pb, mem, i)), ReadShift(pb, mem, i))))

\* Result and the index at which the sentinel loop stopped.
pext_sw_block_table_u64_run(x, pb, mem) == BlockTableLoop(x, pb, mem, 0, Zero64)

pext_sw_block_table_u64(x, pb, mem) == pext_sw_block_table_u64_run(x, pb, mem).res

\* ------------------------------------------------------------------------
\*  pext_sw_block_table_u64_unrolled2 / 4 / 8
\* ------------------------------------------------------------------------

\* One unrolled iteration: the entries i .. i+u-1.
UnrolledGroup(x, pb, mem, i, u) ==
    UNION { ShiftR64(And64(x, ReadMask(pb, mem, i + j)), ReadShift(pb, mem, i + j)) :
            j \in 0 .. (u - 1) }

\* The per-run loop of pext_sw_block_table_u64 with u runs per iteration.
RECURSIVE UnrolledLoop(_, _, _, _, _, _)
UnrolledLoop(x, pb, mem, i, u, res) ==
    IF ReadMask(pb, mem, i) = Zero64 THEN res
    ELSE UnrolledLoop(x, pb, mem, i + u, u, Or64(res, UnrolledGroup(x, pb, mem, i, u)))

pext_sw_block_table_u64_unrolled2(x, pb, mem) == UnrolledLoop(x, pb, mem, 0, 2, Zero64)

pext_sw_block_table_u64_unrolled4(x, pb, mem) == UnrolledLoop(x, pb, mem, 0, 4, Zero64)

pext_sw_block_table_u64_unrolled8(x, pb, mem) == UnrolledLoop(x, pb, mem, 0, 8, Zero64)

\* ------------------------------------------------------------------------
\*  PextTable8 and pext_sw_table8_u64
\* ------------------------------------------------------------------------

\* popcnt[m]: c += (m >> b) & 1 for b = 0..7
RECURSIVE PopcntLoop(_, _, _)
PopcntLoop(m, b, c) ==
    IF b >= ByteBits THEN c
    ELSE PopcntLoop(m, b + 1, c + (IF b \in m THEN 1 ELSE 0))

PextTable8_popcnt_byte(m) == ByteBits

PextTable8_popcnt_low_nibble(m) == Cardinality(m \cap (0 .. 3))

PextTable8_popcnt(m) == PopcntLoop(m, 0, 0)

\* table[m][x]: out_bit = 1 << k is a std::uint8_t, 0 once k reaches 8
RECURSIVE TableEntryLoop(_, _, _, _, _)
TableEntryLoop(m, x, b, out, k) ==
    IF b >= ByteBits THEN out
    ELSE IF b \in m
         THEN TableEntryLoop(m, x, b + 1,
                             IF b \in x /\ k < ByteBits THEN out \cup {k} ELSE out, k + 1)
         ELSE TableEntryLoop(m, x, b + 1, out, k)

PextTable8_table(m, x) == TableEntryLoop(m, x, 0, {}, 0)

RECURSIVE Table8Loop(_, _, _, _, _)
Table8Loop(x, mask, i, out, shift) ==
    IF i >= ByteBits THEN out
    ELSE LET mm   == ByteOf(mask, i)
             xx   == ByteOf(x, i)
             part == PextTable8_table(mm, xx)
         IN  Table8Loop(x, mask, i + 1, Or64(out, ShiftL64(part, shift)),
                        shift + PextTable8_popcnt(mm))

pext_sw_table8_u64(x, mask) == Table8Loop(x, mask, 0, Zero64, 0)

\* the same loop, keeping for each byte i the shift it is entered with and
\* the partial result that is shifted by it
RECURSIVE Table8Trace(_, _, _, _, _)
Table8Trace(x, mask, i, shift, trace) ==
    IF i >= ByteBits THEN trace
    ELSE LET mm == ByteOf(mask, i)
         IN  Table8Trace(x, mask, i + 1, shift + PextTable8_popcnt(mm),
                         Append(trace, [ shift |-> shift,
                                         part |-> PextTable8_table(mm, ByteOf(x, i)) ]))

\* ------------------------------------------------------------------------
\*  pext64_emu: popcount-specialised branches and carry-less multiplication
\* ------------------------------------------------------------------------

\* ~x
Not64(x) == Bits \ x

\* bextr_u64: len bits of x from bit start on, right-aligned
bextr_u64(x, start, len) ==
    IF len = 0 THEN Zero64
    ELSE IF len >= WordBits THEN ShiftR64(x, start)
    ELSE And64(ShiftR64(x, start), LowOnes64(len))

\* blsr_u64: x & (x - 1) clears the lowest set bit
blsr_u64(x) == IF x = Zero64 THEN Zero64 ELSE x \ { MinBit(x) }

\* std::countr_zero(m) and 63 - std::countl_zero(m), for m # 0
countr_zero(m) == MinBit(m)

HighBit(m) == CHOOSE b \in m : \A c \in m : b >= c

\* m &= ~((1ULL << lz) | (1ULL << tz))
ClearEnds(m, lz, tz) == m \ { lz, tz }

\* the branches for popcount 2 .. 7: the bits at the ends of the mask are
\* taken in pairs, the highest remaining one to the highest free result bit
\* (msb << hi) and the lowest to the lowest (lsb << lo), and a mask bit left
\* in the middle goes to the result bit between them (csb).  Case 3 clears
\* only the lowest bit, with blsr_u64, before it takes csb.
RECURSIVE EmuPairs(_, _, _, _, _, _)
EmuPairs(v, m, pc, lo, hi, ret) ==
    IF lo > hi THEN ret
    ELSE IF lo = hi
         THEN Or64(ret, ShiftL64(bextr_u64(v, countr_zero(m), 1), lo))
    ELSE LET lz  == HighBit(m)
             tz  == countr_zero(m)
             msb == bextr_u64(v, lz, 1)
             lsb == bextr_u64(v, tz, 1)
         IN  EmuPairs(v, IF pc = 3 THEN blsr_u64(m) ELSE ClearEnds(m, lz, tz),
                      pc, lo + 1, hi - 1,
                      Or64(ret, Or64(ShiftL64(msb, hi), ShiftL64(lsb, lo))))

mtwo_all_ones == AllOnes64

\* mtwo = (~0ULL) - 1
mtwo == AllOnes64 \ { 0 }

\* the low quadword of _mm_clmulepi64_si128(a, b, 0): bit n of the carry-less
\* product is the XOR of a_i & b_(n-i)
clmulepi64_lo(a, b) ==
    { n \in Bits : Cardinality({ i \in a : i <= n /\ (n - i) \in b }) % 2 = 1 }

\* _mm_sub_epi64(_mm_setzero_si128(), mm), low quadword
Neg64(x) == Add64(Not64(x), { 0 })

\* a = (~bit & a) | ((bit & a) >> s)
EmuMove(a, bit, s) == Or64(And64(Not64(bit), a), ShiftR64(And64(bit, a), s))

LastClmulStage == 4

\* the stages bit0 .. bit4 of the default branch, with shifts 1, 2, 4, 8, 16,
\* and the last stage bit5 = -mm, doubled, with shift 32
RECURSIVE EmuStages(_, _, _)
EmuStages(a, mm, k) ==
    IF k > LastClmulStage
    THEN LET bit5 == Neg64(mm)
         IN  EmuMove(a, Add64(bit5, bit5), 2 ^ k)
    ELSE LET clmul == clmulepi64_lo(mm, mtwo)
         IN  EmuStages(EmuMove(a, clmul, 2 ^ k), And64(mm, clmul), k + 1)

MaxSparse == 7

pext64_emu(v, m) ==
    LET pc == Cardinality(m)
    IN  IF pc = 0 THEN Zero64
        ELSE IF pc = 1 THEN (IF And64(v, m) # Zero64 THEN { 0 } ELSE Zero64)
        ELSE IF pc <= MaxSparse THEN EmuPairs(v, m, pc, 0, pc - 1, Zero64)
        ELSE EmuStages(And64(v, m), Not64(m), 0)

\* ------------------------------------------------------------------------
\*  Hardware PEXT
\* ------------------------------------------------------------------------

\* The BMI2 instruction: the value bit at the i-th lowest set bit of mask
\* becomes result bit i.
pext_u64_instruction(x, mask) ==
    { Cardinality({ c \in mask : c < b }) : b \in And64(x, mask) }

\* pext_hw_bmi2_u64 in a build with (have) or without HAVE_BMI2
pext_hw_bmi2_u64(x, mask, have) ==
    IF have THEN pext_u64_instruction(x, mask) ELSE Zero64

\* ------------------------------------------------------------------------
\*  Inputs of the strategy harness
\* ------------------------------------------------------------------------

MaxRunLen == 2

MaxGap == 2

MaxOffset == 1

MaxStripe == 3

\* cnt runs of on ones, separated by gap zeros, the first at bit off; what
\* does not fit into 64 bits is cut off.
RunPattern(off, on, gap, cnt) ==
    { b \in Bits : /\ b >= off
                   /\ (b - off) % (on + gap) < on
                   /\ (b - off) \div (on + gap) < cnt }

Masks ==
    { RunPattern(off, on, gap, cnt) :
        off \in 0 .. MaxOffset, on \in 1 .. MaxRunLen,
        gap \in 1 .. MaxGap, cnt \in 0 .. TableSize }
    \cup { ShiftL64(AllOnes64, off) : off \in 0 .. MaxOffset }
    \cup { LowOnes64(HalfBits), ShiftL64(AllOnes64, HalfBits) }

\* value with alternating stripes of w zeros and w ones
Stripe(w) == { b \in Bits : (b \div w) % 2 = 1 }

Values == { Zero64, AllOnes64 } \cup { Stripe(w) : w \in 1 .. MaxStripe }

\* Contents of the memory behind PextBlockTable::masks that a read at index
\* 32 or more can meet: a zero word, or a non-zero (mask, shift) pair.
OobMem == { << >>, << [ mask |-> AllOnes64, shift |-> 0 ] >> }

NoCall == [ called |-> FALSE ]

\* ------------------------------------------------------------------------
\*  State
\* ------------------------------------------------------------------------

VARIABLES
    in_value,      \* PextInput::value
    in_mask,       \* PextInput::mask
    in_table,      \* PextInput::block_table: outcome of the preprocessing
    last_call,     \* the strategy called last on the input and what it returned
    have_bmi2,     \* the build defines HAVE_BMI2
    cpu_bmi2,      \* the executing CPU has the BMI2 instructions
    rng_words,     \* the words a default-seeded Splitmix64 yields first
    obj,           \* the AdaptivePext instances: mode_, pext_func_, mask_, block_table_
    tune,          \* locals of tune_to_fastest_mode_ while an instance is tuning
    ret,           \* outcome of the last operator() call on each instance
    pext_table,    \* the function-local static PextTable8 of pext_sw_table8_u64
    thread,        \* position and locals of each thread calling pext_sw_table8_u64
    kmer_run,      \* a run of the spaced k-mer benches on one sequence
    mask_gen       \* a call of random_mask_with_runs and the check of its result

harness_vars == << in_value, in_mask, in_table, last_call >>

adaptive_vars == << have_bmi2, cpu_bmi2, rng_words, obj, tune, ret >>

bench_vars == << pext_table, thread, kmer_run, mask_gen >>

vars == << in_value, in_mask, in_table, last_call, have_bmi2, cpu_bmi2, rng_words, obj, tune, ret,
           pext_table, thread, kmer_run, mask_gen >>

\* ------------------------------------------------------------------------
\*  AdaptivePext: ExtractMode, instances, strategy wrappers
\* ------------------------------------------------------------------------

kAutomatic == 0

kPext == 1

kByteTable == 2

kBlockTable == 3

kBlockTableUnrolled2 == 4

kBlockTableUnrolled4 == 5

kBlockTableUnrolled8 == 6

\* the two instances a program holds here
Inst == { "a", "b" }

\* storage of an instance no constructor has run on
Unconstructed ==
    [ state |-> "unconstructed", error |-> "none", req_mode |-> kAutomatic,
      mode_ |-> kAutomatic, pext_func_ |-> "nullptr",
      mask_ |-> Zero64, block_table_ |-> PextBlockTable ]

NoTune == [ active |-> FALSE ]

\* std::numeric_limits<double>::infinity() and a measured duration
Infinity == [ finite |-> FALSE, t |-> 0 ]

Duration(t) == [ finite |-> TRUE, t |-> t ]

TimeLess_reversed(time, best_time) ==
    time.finite /\ (~best_time.finite \/ time.t > best_time.t)

TimeLess_or_equal(time, best_time) ==
    time.finite /\ (~best_time.finite \/ time.t <= best_time.t)

\* time < best_time
TimeLess(time, best_time) ==
    time.finite /\ (~best_time.finite \/ time.t < best_time.t)

\* bmi2_enabled(): compiled && cpu
bmi2_enabled == have_bmi2 /\ cpu_bmi2

\* first_mode of the tuning loop, chosen by the preprocessor
first_mode == IF have_bmi2 THEN kPext ELSE kByteTable

last_mode == kBlockTableUnrolled8

\* set_pext_func_: the member function the pointer is set to, or the throw
set_pext_func_(mode) ==
    CASE mode = kAutomatic           -> [ error |-> "invalid_argument", func |-> "nullptr" ]
      [] mode = kPext                -> [ error |-> "none", func |-> "pext_hw_bmi2_u64_" ]
      [] mode = kByteTable           -> [ error |-> "none", func |-> "pext_sw_byte_table_" ]
      [] mode = kBlockTable          -> [ error |-> "none", func |-> "pext_sw_block_table_u64_" ]
      [] mode = kBlockTableUnrolled2 -> [ error |-> "none", func |-> "pext_sw_block_table_u64_unrolled2_" ]
      [] mode = kBlockTableUnrolled4 -> [ error |-> "none", func |-> "pext_sw_block_table_u64_unrolled4_" ]
      [] mode = kBlockTableUnrolled8 -> [ error |-> "none", func |-> "pext_sw_block_table_u64_unrolled8_" ]
      [] OTHER                       -> [ error |-> "invalid_argument", func |-> "nullptr" ]

Returns(v) == [ kind |-> "value", ret |-> v ]

Throws(what) == [ kind |-> what, ret |-> Zero64 ]

\* executing _pext_u64 on a CPU without BMI2 raises an illegal-instruction trap
Crashes == [ kind |-> "illegal_instruction", ret |-> Zero64 ]

\* operator(): (this->*pext_func_)(value), through the wrapper the pointer
\* names.  mem is the memory behind block_table_.masks at the time of the call.
CallOperator(o, value, mem) ==
    CASE o.pext_func_ = "pext_dummy_" -> Throws("invalid_argument")
      [] o.pext_func_ = "pext_hw_bmi2_u64_" ->
            IF ~have_bmi2 THEN Throws("runtime_error")
            ELSE IF ~cpu_bmi2 THEN Crashes
            ELSE Returns(pext_hw_bmi2_u64(value, o.mask_, have_bmi2))
      [] o.pext_func_ = "pext_sw_byte_table_" ->
            Returns(pext_sw_table8_u64(value, o.mask_))
      [] o.pext_func_ = "pext_sw_block_table_u64_" ->
            Returns(pext_sw_block_table_u64(value, o.block_table_, mem))
      [] o.pext_func_ = "pext_sw_block_table_u64_unrolled2_" ->
            Returns(pext_sw_block_table_u64_unrolled2(value, o.block_table_, mem))
      [] o.pext_func_ = "pext_sw_block_table_u64_unrolled4_" ->
            Returns(pext_sw_block_table_u64_unrolled4(value, o.block_table_, mem))
      [] o.pext_func_ = "pext_sw_block_table_u64_unrolled8_" ->
            Returns(pext_sw_block_table_u64_unrolled8(value, o.block_table_, mem))
      [] OTHER -> Throws("invalid_argument")

\* What the memory behind block_table_.masks may hold during a call.  The
\* sentinel loops can only get there past 32 non-zero entries.
MemChoices(o) ==
    IF \E i \in TableIdx : o.block_table_.masks[i] = Zero64 THEN { << >> } ELSE OobMem

\* for( auto const in : data ) accu += operator()(in);
RECURSIVE AccuLoop(_, _, _, _, _)
AccuLoop(o, data, mem, k, accu) ==
    IF k > Len(data) THEN Returns(accu)
    ELSE LET r == CallOperator(o, data[k], mem)
         IN  IF r.kind # "value" THEN r
             ELSE AccuLoop(o, data, mem, k + 1, Add64(accu, r.ret))

\* mode_ = best_mode at the end of tuning
TunedMode_kept(mode_now, best_mode) == mode_now

TunedMode(mode_now, best_mode) == best_mode

\* ------------------------------------------------------------------------
\*  Inputs of the dispatcher
\* ------------------------------------------------------------------------

BufLen == 2

MaxTime == 2

\* masks an instance is constructed for: the two of 32 runs, no run, one run
\* of 64 bits, and a few runs of several bits
AdaptiveMasks ==
    { RunPattern(off, 1, 1, TableSize) : off \in { 0, 1 } }
    \cup { Zero64, AllOnes64, RunPattern(1, 2, 1, 3) }

\* words the generator puts into the buffer, and values an instance is
\* called with
DataValues == { Stripe(1), AllOnes64 }

\* the buffer data of tune_to_fastest_mode_, shortened to BufLen words: a
\* first word and the word all later ones repeat
DataBuffers ==
    { [ k \in 1 .. BufLen |-> IF k = 1 THEN v ELSE w ] : v \in DataValues, w \in DataValues }

Times == { Duration(t) : t \in 1 .. MaxTime }

\* modes a caller can pass, one past the enumerators included
ModeArgs == kAutomatic .. (kBlockTableUnrolled8 + 1)

\* ------------------------------------------------------------------------
\*  AdaptivePext: constructor, tuning loop, operator()
\* ------------------------------------------------------------------------

HarnessIdle ==
    /\ in_value = Zero64
    /\ in_mask = Zero64
    /\ in_table = NoCall
    /\ last_call = NoCall

\* the static PextTable8 before the first call: zero-initialised storage, its
\* initialisation not begun
NoTable8 == [ guard |-> "uninitialised", rows |-> 0, ctors |-> 0 ]

\* a thread that is not inside pext_sw_table8_u64
Outside == [ pc |-> "outside", m |-> 0, i |-> 0 ]

NumThreads == 2

Threads == 1 .. NumThreads

Table8Idle ==
    /\ pext_table = NoTable8
    /\ thread = [ t \in Threads |-> Outside ]

NoRun == [ pc |-> "idle" ]

BenchIdle ==
    /\ Table8Idle
    /\ kmer_run = NoRun
    /\ mask_gen = NoRun

NoInstances ==
    /\ obj = [ i \in Inst |-> Unconstructed ]
    /\ tune = [ i \in Inst |-> NoTune ]
    /\ ret = [ i \in Inst |-> NoCall ]

InitAdaptive ==
    /\ HarnessIdle
    /\ BenchIdle
    /\ have_bmi2 \in BOOLEAN
    /\ cpu_bmi2 \in BOOLEAN
    /\ rng_words \in DataBuffers
    /\ NoInstances

DefaultFunc_byte_table == "pext_sw_byte_table_"

\* pext_func_ = &AdaptivePext::pext_dummy_
DefaultFunc == "pext_dummy_"

\* values an uninitialised mask_ can hold
StaleMasks == { Zero64, AllOnes64 }

\* AdaptivePext(): sets pext_func_ only; mode_ and mask_ are not initialised
\* and hold whatever their storage held, block_table_ is zero-initialised
DefaultConstruct(i) ==
    /\ obj[i].state = "unconstructed"
    /\ \E mode \in ModeArgs, mask \in StaleMasks :
         obj' = [obj EXCEPT ![i] = [ Unconstructed EXCEPT !.state = "default",
                                                            !.mode_ = mode,
                                                            !.mask_ = mask,
                                                            !.pext_func_ = DefaultFunc ]]
    /\ UNCHANGED << have_bmi2, cpu_bmi2, rng_words, tune, ret, harness_vars, bench_vars >>

\* AdaptivePext( mask, mode ): up to the call of tune_to_fastest_mode_, whose
\* prologue fills the buffer and sets best_mode, best_time, best_accu
Construct(i, mask, mode) ==
    /\ obj[i].state = "unconstructed"
    /\ LET pre   == pext_sw_block_table_preprocess_u64(mask)
           table == IF mode # kPext THEN pre.table ELSE PextBlockTable
           set   == set_pext_func_(mode)
           base  == [ Unconstructed EXCEPT !.req_mode = mode, !.mode_ = mode,
                                           !.mask_ = mask, !.block_table_ = table ]
       IN  IF mode # kPext /\ pre.error # "none"
           THEN /\ obj' = [obj EXCEPT ![i] = [ base EXCEPT !.state = "failed",
                                                           !.error = pre.error,
                                                           !.block_table_ = PextBlockTable ]]
                /\ UNCHANGED tune
           ELSE IF mode = kAutomatic
           THEN /\ obj' = [obj EXCEPT ![i] = [ base EXCEPT !.state = "tuning" ]]
                /\ tune' = [tune EXCEPT ![i] =
                              [ active |-> TRUE, data |-> rng_words, m |-> first_mode,
                                best_mode |-> kAutomatic, best_time |-> Infinity,
                                best_accu |-> Zero64,
                                cand_time |-> << >>, cand_accu |-> << >> ]]
           ELSE IF set.error # "none"
           THEN /\ obj' = [obj EXCEPT ![i] = [ base EXCEPT !.state = "failed",
                                                           !.error = set.error ]]
                /\ UNCHANGED tune
           ELSE /\ obj' = [obj EXCEPT ![i] = [ base EXCEPT !.state = "bound",
                                                           !.pext_func_ = set.func ]]
                /\ UNCHANGED tune
    /\ UNCHANGED << have_bmi2, cpu_bmi2, rng_words, ret, harness_vars, bench_vars >>

\* if( best_accu == 0 ) best_accu = accu;
FirstAccu(best_accu, accu) == IF best_accu = Zero64 THEN accu ELSE best_accu

\* The body of the loop after the timed run: the check of the accumulated
\* value and the update of the best mode.  o is the instance with the
\* candidate's function set, run the outcome of the run, time its duration.
TuneUpdate(i, o, run, time) ==
    LET t    == tune[i]
        accu == run.ret
        seen == FirstAccu(t.best_accu, accu)
        rec  == [ t EXCEPT !.cand_time = (t.m :> time.t) @@ t.cand_time,
                           !.cand_accu = (t.m :> accu) @@ t.cand_accu,
                           !.m = t.m + 1 ]
    IN  IF run.kind # "value"
        THEN /\ obj' = [obj EXCEPT ![i] = [ o EXCEPT !.state = "crashed", !.error = run.kind ]]
             /\ tune' = [tune EXCEPT ![i] = NoTune]
        ELSE IF seen # accu
        THEN /\ obj' = [obj EXCEPT ![i] = [ o EXCEPT !.state = "failed",
                                                     !.error = "inconsistent" ]]
             /\ tune' = [tune EXCEPT ![i] = NoTune]
        ELSE /\ obj' = [obj EXCEPT ![i] = o]
             /\ tune' = [tune EXCEPT ![i] =
                           IF TimeLess(time, t.best_time)
                           THEN [ rec EXCEPT !.best_mode = t.m, !.best_time = time,
                                             !.best_accu = accu ]
                           ELSE [ rec EXCEPT !.best_accu = seen ]]

\* One iteration of the loop over the candidate modes: set_pext_func_( m ),
\* the timed run over the buffer, the check and the update.  mem is the
\* memory behind block_table_.masks during the run, time the duration the
\* clock measures for it.
TuneStep(i) ==
    /\ obj[i].state = "tuning"
    /\ tune[i].m <= last_mode
    /\ \E mem \in MemChoices(obj[i]) :
       \E o \in { [ obj[i] EXCEPT !.pext_func_ = set_pext_func_(tune[i].m).func ] } :
       \E run \in { AccuLoop(o, tune[i].data, mem, 1, Zero64) } :
       \E time \in Times :
           TuneUpdate(i, o, run, time)
    /\ UNCHANGED << have_bmi2, cpu_bmi2, rng_words, ret, harness_vars, bench_vars >>

\* After the loop: mode_ = best_mode; set_pext_func_( best_mode ); the locals
\* of the function go out of scope and the constructor returns.
TuneFinish(i) ==
    /\ obj[i].state = "tuning"
    /\ tune[i].m > last_mode
    /\ LET mode == TunedMode(obj[i].mode_, tune[i].best_mode)
           set  == set_pext_func_(tune[i].best_mode)
       IN  obj' = [obj EXCEPT ![i] =
                     IF set.error # "none"
                     THEN [ obj[i] EXCEPT !.state = "failed", !.error = set.error, !.mode_ = mode ]
                     ELSE [ obj[i] EXCEPT !.state = "bound", !.mode_ = mode,
                                          !.pext_func_ = set.func ]]
    /\ tune' = [tune EXCEPT ![i] = NoTune]
    /\ UNCHANGED << have_bmi2, cpu_bmi2, rng_words, ret, harness_vars, bench_vars >>

\* an instance whose constructor has returned
Constructed(i) == obj[i].state \in { "bound", "default" }

\* operator()( value ) on a constructed instance
Apply(i, value, mem) ==
    /\ Constructed(i)
    /\ ret' = [ret EXCEPT ![i] = [ called |-> TRUE, value |-> value ]
                                  @@ CallOperator(obj[i], value, mem)]
    /\ UNCHANGED << have_bmi2, cpu_bmi2, rng_words, obj, tune, harness_vars, bench_vars >>

\* mode()
Mode(i) ==
    /\ Constructed(i)
    /\ ret' = [ret EXCEPT ![i] = [ called |-> TRUE, value |-> Zero64, kind |-> "mode",
                                   ret |-> Zero64, mode |-> obj[i].mode_ ]]
    /\ UNCHANGED << have_bmi2, cpu_bmi2, rng_words, obj, tune, harness_vars, bench_vars >>

\* static mode_name( mode ): the name, or the throw of the default branch
mode_name(mode) ==
    CASE mode = kAutomatic           -> [ kind |-> "mode_name", name |-> "Automatic" ]
      [] mode = kPext                -> [ kind |-> "mode_name", name |-> "Pext" ]
      [] mode = kByteTable           -> [ kind |-> "mode_name", name |-> "ByteTable" ]
      [] mode = kBlockTable          -> [ kind |-> "mode_name", name |-> "BlockTable" ]
      [] mode = kBlockTableUnrolled2 -> [ kind |-> "mode_name", name |-> "BlockTableUnrolled2" ]
      [] mode = kBlockTableUnrolled4 -> [ kind |-> "mode_name", name |-> "BlockTableUnrolled4" ]
      [] mode = kBlockTableUnrolled8 -> [ kind |-> "mode_name", name |-> "BlockTableUnrolled8" ]
      [] OTHER                       -> [ kind |-> "invalid_argument", name |-> "" ]

\* mode_name() const
ModeName(i) ==
    /\ Constructed(i)
    /\ ret' = [ret EXCEPT ![i] = [ called |-> TRUE, value |-> Zero64, ret |-> Zero64 ]
                                  @@ mode_name(obj[i].mode_)]
    /\ UNCHANGED << have_bmi2, cpu_bmi2, rng_words, obj, tune, harness_vars, bench_vars >>

\* operator=( AdaptivePext const& ) = default: i = j copies every member
CopyAssign(i, j) ==
    /\ i # j
    /\ Constructed(i)
    /\ Constructed(j)
    /\ obj' = [obj EXCEPT ![i] = obj[j]]
    /\ UNCHANGED << have_bmi2, cpu_bmi2, rng_words, tune, ret, harness_vars, bench_vars >>

\* operator=( AdaptivePext&& ) = default: i = std::move(j) moves every member,
\* which for an enum, a pointer, an integer and arrays of integers copies it
MoveAssign(i, j) ==
    /\ i # j
    /\ Constructed(i)
    /\ Constructed(j)
    /\ obj' = [obj EXCEPT ![i] = obj[j]]
    /\ UNCHANGED << have_bmi2, cpu_bmi2, rng_words, tune, ret, harness_vars, bench_vars >>

\* A program that constructs one instance and uses it.
Next ==
    \/ \E mask \in AdaptiveMasks, mode \in ModeArgs : Construct("a", mask, mode)
    \/ DefaultConstruct("a")
    \/ TuneStep("a")
    \/ TuneFinish("a")
    \/ \E value \in DataValues, mem \in MemChoices(obj["a"]) : Apply("a", value, mem)

Spec == InitAdaptive /\ [][Next]_vars

\* A program that constructs two instances for the same mask, one after the
\* other, each tuning itself, and then calls both with the same value.
ConstructSecond ==
    /\ obj["a"].state = "bound"
    /\ Construct("b", obj["a"].mask_, kAutomatic)

ApplyBoth(value, mem_a, mem_b) ==
    /\ obj["a"].state = "bound"
    /\ obj["b"].state = "bound"
    /\ ret' = [ a |-> [ called |-> TRUE, value |-> value ] @@ CallOperator(obj["a"], value, mem_a),
                b |-> [ called |-> TRUE, value |-> value ] @@ CallOperator(obj["b"], value, mem_b) ]
    /\ UNCHANGED << have_bmi2, cpu_bmi2, rng_words, obj, tune, harness_vars, bench_vars >>

PairMasks == { RunPattern(1, 1, 1, TableSize), RunPattern(1, 2, 1, 3) }

NextPair ==
    \/ \E mask \in PairMasks : Construct("a", mask, kAutomatic)
    \/ ConstructSecond
    \/ \E i \in Inst : TuneStep(i)
    \/ \E i \in Inst : TuneFinish(i)
    \/ \E value \in DataValues, mem_a \in MemChoices(obj["a"]), mem_b \in MemChoices(obj["b"]) :
           ApplyBoth(value, mem_a, mem_b)

SpecPair == InitAdaptive /\ [][NextPair]_vars

\* modes a caller of the second program passes explicitly
RebindModes == { kByteTable, kBlockTable }

\* A program that holds two instances, constructs each for a mask with an
\* explicit mode, and then uses every public operation on them.
NextRebind ==
    \/ \E i \in Inst, mask \in PairMasks, mode \in RebindModes : Construct(i, mask, mode)
    \/ \E i \in Inst : \E value \in DataValues, mem \in MemChoices(obj[i]) : Apply(i, value, mem)
    \/ \E i \in Inst : Mode(i)
    \/ \E i \in Inst : ModeName(i)
    \/ \E i \in Inst, j \in Inst : CopyAssign(i, j)
    \/ \E i \in Inst, j \in Inst : MoveAssign(i, j)

SpecRebind == InitAdaptive /\ [][NextRebind]_vars

\* ------------------------------------------------------------------------
\*  Strategy harness: make_input_blocks and the benchmarked calls
\* ------------------------------------------------------------------------

InitPext ==
    /\ in_value \in Values
    /\ in_mask \in Masks
    /\ in_table = NoCall
    /\ last_call = NoCall
    /\ have_bmi2 = FALSE
    /\ cpu_bmi2 = FALSE
    /\ rng_words = << >>
    /\ NoInstances
    /\ BenchIdle

\* pext_sw_block_table_preprocess_u64( mask )
Preprocess ==
    /\ ~in_table.called
    /\ in_table' = [ called |-> TRUE ] @@ pext_sw_block_table_preprocess_u64(in_mask)
    /\ UNCHANGED << in_value, in_mask, last_call, adaptive_vars, bench_vars >>

\* the benches of the PEXT suites in the order they are handed to the suite
SuiteOrder ==
    << "pext_hw_bmi2", "pext_sw_bitloop", "pext_sw_split32", "pext_sw_table8",
       "pext_sw_block_table", "pext_sw_block_table_unrolled2",
       "pext_sw_block_table_unrolled4", "pext_sw_block_table_unrolled8",
       "pext64_emu" >>

\* the name of the bench of an unrolled variant
UnrolledName(u) ==
    CASE u = 2 -> "pext_sw_block_table_unrolled2"
      [] u = 4 -> "pext_sw_block_table_unrolled4"
      [] u = 8 -> "pext_sw_block_table_unrolled8"

\* the bench a recorded call belongs to
BenchName(c) ==
    IF c.fn = "pext_sw_block_table_unrolled" THEN UnrolledName(c.by) ELSE c.fn

BenchPosition(name) == CHOOSE k \in DOMAIN SuiteOrder : SuiteOrder[k] = name

\* Microbench::run_once runs the benches one after the other in their order,
\* and run_one calls its bench on the input once to warm up and once per
\* round: a call is either a further call of the bench that ran last or the
\* first call of the bench after it.
run_one(name) ==
    IF last_call.called
    THEN \E k \in { BenchPosition(BenchName(last_call)) } :
            BenchPosition(name) \in { k, k + 1 }
    ELSE BenchPosition(name) = 1

\* pext_hw_bmi2_u64(in.value, in.mask), which bench_pext calls in every build
CallHardware ==
    /\ in_table.called /\ in_table.error = "none"
    /\ run_one("pext_hw_bmi2")
    /\ \E run \in { IF have_bmi2 /\ ~cpu_bmi2 THEN Crashes
                     ELSE Returns(pext_hw_bmi2_u64(in_value, in_mask, have_bmi2)) } :
         last_call' = [ called |-> TRUE, fn |-> "pext_hw_bmi2",
                        kind |-> run.kind, ret |-> run.ret, stop |-> 0 ]
    /\ UNCHANGED << in_value, in_mask, in_table, adaptive_vars, bench_vars >>

\* pext_sw_bitloop_u64(in.value, in.mask)
CallBitloop ==
    /\ in_table.called /\ in_table.error = "none"
    /\ run_one("pext_sw_bitloop")
    /\ \E run \in { pext_sw_bitloop_u64_run(in_value, in_mask) } :
         last_call' = [ called |-> TRUE, fn |-> "pext_sw_bitloop",
                        ret |-> run.out, stop |-> run.iters ]
    /\ UNCHANGED << in_value, in_mask, in_table, adaptive_vars, bench_vars >>

\* pext_sw_split32_u64(in.value, in.mask)
CallSplit32 ==
    /\ in_table.called /\ in_table.error = "none"
    /\ run_one("pext_sw_split32")
    /\ last_call' = [ called |-> TRUE, fn |-> "pext_sw_split32",
                      ret |-> pext_sw_split32_u64(in_value, in_mask), stop |-> 0 ]
    /\ UNCHANGED << in_value, in_mask, in_table, adaptive_vars, bench_vars >>

\* pext_sw_table8_u64(in.value, in.mask)
CallTable8 ==
    /\ in_table.called /\ in_table.error = "none"
    /\ run_one("pext_sw_table8")
    /\ last_call' = [ called |-> TRUE, fn |-> "pext_sw_table8",
                      ret |-> pext_sw_table8_u64(in_value, in_mask), stop |-> 0 ]
    /\ UNCHANGED << in_value, in_mask, in_table, adaptive_vars, bench_vars >>

\* pext64_emu(in.value, in.mask)
CallEmu ==
    /\ in_table.called /\ in_table.error = "none"
    /\ run_one("pext64_emu")
    /\ last_call' = [ called |-> TRUE, fn |-> "pext64_emu",
                      ret |-> pext64_emu(in_value, in_mask), stop |-> 0 ]
    /\ UNCHANGED << in_value, in_mask, in_table, adaptive_vars, bench_vars >>

\* pext_sw_block_table_u64(in.value, in.block_table)
CallBlockTable ==
    /\ in_table.called /\ in_table.error = "none"
    /\ run_one("pext_sw_block_table")
    /\ \E mem \in MemChoices([ block_table_ |-> in_table.table ]) :
         LET run == pext_sw_block_table_u64_run(in_value, in_table.table, mem)
         IN  last_call' = [ called |-> TRUE, fn |-> "pext_sw_block_table",
                            ret |-> run.res, stop |-> run.i ]
    /\ UNCHANGED << in_value, in_mask, in_table, adaptive_vars, bench_vars >>

\* pext_sw_block_table_u64_unrolled2 / 4 / 8 (in.value, in.block_table)
CallUnrolled(u) ==
    /\ in_table.called /\ in_table.error = "none"
    /\ run_one(UnrolledName(u))
    /\ \E mem \in MemChoices([ block_table_ |-> in_table.table ]) :
         last_call' = [ called |-> TRUE, fn |-> "pext_sw_block_table_unrolled", by |-> u,
                        ret |-> CASE u = 2 -> pext_sw_block_table_u64_unrolled2(in_value, in_table.table, mem)
                                  [] u = 4 -> pext_sw_block_table_u64_unrolled4(in_value, in_table.table, mem)
                                  [] u = 8 -> pext_sw_block_table_u64_unrolled8(in_value, in_table.table, mem),
                        stop |-> 0 ]
    /\ UNCHANGED << in_value, in_mask, in_table, adaptive_vars, bench_vars >>

NextPext ==
    \/ Preprocess
    \/ CallHardware
    \/ CallBitloop
    \/ CallSplit32
    \/ CallTable8
    \/ CallEmu
    \/ CallBlockTable
    \/ \E u \in { 2, 4, 8 } : CallUnrolled(u)

SpecPext == InitPext /\ [][NextPext]_vars

\* ------------------------------------------------------------------------
\*  pext_sw_table8_u64 called from several threads: the initialisation of
\*  its function-local  static const PextTable8 pext_table
\* ------------------------------------------------------------------------

\* the rows m of PextTable8::table and entries of PextTable8::popcnt
TableRows == 256

InitTable8 ==
    /\ HarnessIdle
    /\ have_bmi2 = FALSE
    /\ cpu_bmi2 = FALSE
    /\ rng_words = << >>
    /\ NoInstances
    /\ BenchIdle

\* a thread calls pext_sw_table8_u64 and reaches the declaration of the static
EnterTable8(t) ==
    /\ thread[t].pc = "outside"
    /\ thread' = [thread EXCEPT ![t] = [ Outside EXCEPT !.pc = "declaration" ]]
    /\ UNCHANGED << pext_table, harness_vars, adaptive_vars, kmer_run, mask_gen >>

MustInit_unguarded(guard) == guard # "complete"

\* control passing through the declaration of a static local initialises it
\* if its initialisation has not begun
MustInit(guard) == guard = "uninitialised"

\* The declaration  static const PextTable8 pext_table;  The thread that finds
\* the initialisation not begun starts the constructor; one that finds it
\* complete goes on to the loop; one that finds it in progress waits here.
DeclareTable8(t) ==
    /\ thread[t].pc = "declaration"
    /\ \/ /\ MustInit(pext_table.guard)
          /\ pext_table' = [pext_table EXCEPT !.guard = "in_progress",
                                              !.ctors = pext_table.ctors + 1]
          /\ thread' = [thread EXCEPT ![t] = [ Outside EXCEPT !.pc = "constructor" ]]
       \/ /\ pext_table.guard = "complete"
          /\ thread' = [thread EXCEPT ![t] = [ Outside EXCEPT !.pc = "loop" ]]
          /\ UNCHANGED pext_table
    /\ UNCHANGED << harness_vars, adaptive_vars, kmer_run, mask_gen >>

\* PextTable8(): one iteration of the loop over m, which writes popcnt[m] and
\* table[m][x] for every x
ConstructRow(t) ==
    /\ thread[t].pc = "constructor"
    /\ thread[t].m < TableRows
    /\ pext_table' = [pext_table EXCEPT !.rows = pext_table.rows + 1]
    /\ thread' = [thread EXCEPT ![t].m = thread[t].m + 1]
    /\ UNCHANGED << harness_vars, adaptive_vars, kmer_run, mask_gen >>

\* the constructor returns: the initialisation is complete
ConstructDone(t) ==
    /\ thread[t].pc = "constructor"
    /\ thread[t].m >= TableRows
    /\ pext_table' = [pext_table EXCEPT !.guard = "complete"]
    /\ thread' = [thread EXCEPT ![t] = [ Outside EXCEPT !.pc = "loop" ]]
    /\ UNCHANGED << harness_vars, adaptive_vars, kmer_run, mask_gen >>

\* one iteration of the loop over the bytes: reads pext_table.table[mm][xx]
\* and pext_table.popcnt[mm]
ReadByte(t) ==
    /\ thread[t].pc = "loop"
    /\ thread[t].i < ByteBits
    /\ thread' = [thread EXCEPT ![t].i = thread[t].i + 1]
    /\ UNCHANGED << pext_table, harness_vars, adaptive_vars, kmer_run, mask_gen >>

\* return out;
ReturnTable8(t) ==
    /\ thread[t].pc = "loop"
    /\ thread[t].i >= ByteBits
    /\ thread' = [thread EXCEPT ![t] = Outside]
    /\ UNCHANGED << pext_table, harness_vars, adaptive_vars, kmer_run, mask_gen >>

NextTable8 ==
    \E t \in Threads :
        \/ EnterTable8(t)
        \/ DeclareTable8(t)
        \/ ConstructRow(t)
        \/ ConstructDone(t)
        \/ ReadByte(t)
        \/ ReturnTable8(t)

SpecTable8 == InitTable8 /\ [][NextTable8]_vars

\* ------------------------------------------------------------------------
\*  2-bit encoding, k-mer extraction, and the spaced k-mer hashes
\* ------------------------------------------------------------------------

\* a ^ b
Xor64(a, b) == (a \ b) \cup (b \ a)

char_to_nt_switch_complement(c) ==
    CASE c = "A" -> 3 [] c = "C" -> 2 [] c = "G" -> 1 [] c = "T" -> 0 [] OTHER -> 4

\* char_to_nt_switch: the 2-bit code of a nucleotide; 4 stands for the throw
char_to_nt_switch(c) ==
    CASE c = "A" -> 0 [] c = "C" -> 1 [] c = "G" -> 2 [] c = "T" -> 3 [] OTHER -> 4

\* char_to_nt_table: seq_nt4_table[c], which is 4 for what makes it throw
char_to_nt_table(c) ==
    CASE c = "A" -> 0 [] c = "C" -> 1 [] c = "G" -> 2 [] c = "T" -> 3 [] OTHER -> 4

\* a small integer as a 64-bit word
Word(n) == { b \in 0 .. 1 : (n \div (2 ^ b)) % 2 = 1 }

KmerMask_unmasked(k) == AllOnes64

\* mask = (k == 32) ? ~0 : ((1 << (2 * k)) - 1)
KmerMask(k) == IF k = HalfBits THEN AllOnes64 ELSE LowOnes64(2 * k)

\* for( x = 0; x < k; ++x ) kmer = (kmer << 2) | enc(data[i + x]): the loop
\* that builds the first k-mer (i = 0), and the one of the re-extraction
RECURSIVE BuildKmer(_, _, _, _, _)
BuildKmer(seq, i, k, x, kmer) ==
    IF x >= k THEN kmer
    ELSE BuildKmer(seq, i, k, x + 1,
                   Or64(ShiftL64(kmer, 2), Word(char_to_nt_table(seq[i + x + 1]))))

\* kmer = ((kmer << 2) & mask) | enc(data[i + k - 1])
SlideKmer(kmer, k, ch) ==
    Or64(And64(ShiftL64(kmer, 2), KmerMask(k)), Word(char_to_nt_table(ch)))

\* for_each_kmer_2bit_reextract: the words handed to func, in order
for_each_kmer_2bit_reextract(seq, k) ==
    IF Len(seq) < k THEN << >>
    ELSE [ j \in 1 .. (Len(seq) - k + 1) |-> BuildKmer(seq, j - 1, k, 0, Zero64) ]

\* comin_prepare_mask: the positions of the '1' symbols
RECURSIVE CominMaskLoop(_, _, _)
CominMaskLoop(mask, i, result) ==
    IF i >= Len(mask) THEN result
    ELSE CominMaskLoop(mask, i + 1, IF mask[i + 1] = "1" THEN Append(result, i) ELSE result)

comin_prepare_mask(mask) == CominMaskLoop(mask, 0, << >>)

\* comin_compute_spaced_kmer: result <<= 2; result |= c  for each position
RECURSIVE comin_compute_spaced_kmer(_, _, _, _, _)
comin_compute_spaced_kmer(mask, seq, start_pos, i, result) ==
    IF i > Len(mask) THEN result
    ELSE comin_compute_spaced_kmer(mask, seq, start_pos, i + 1,
             Or64(ShiftL64(result, 2), Word(char_to_nt_switch(seq[start_pos + mask[i] + 1]))))

\* comin_compute_sequence_hash: hash ^= comp( mask, seq, i )  for i = 0 .. stop
RECURSIVE CominHashLoop(_, _, _, _, _)
CominHashLoop(mask, seq, i, stop, hash) ==
    IF i > stop THEN hash
    ELSE CominHashLoop(mask, seq, i + 1, stop,
                       Xor64(hash, comin_compute_spaced_kmer(mask, seq, i, 1, Zero64)))

comin_compute_sequence_hash(k, mask, seq) == CominHashLoop(mask, seq, 0, Len(seq) - k, Zero64)

\* pext_prepare_mask: result <<= 2; result |= 3 for a '1'
RECURSIVE PextMaskLoop(_, _, _)
PextMaskLoop(mask, i, result) ==
    IF i >= Len(mask) THEN result
    ELSE PextMaskLoop(mask, i + 1,
                      IF mask[i + 1] = "1" THEN Or64(ShiftL64(result, 2), Word(3))
                      ELSE ShiftL64(result, 2))

pext_prepare_mask(mask) == PextMaskLoop(mask, 0, Zero64)

\* the PEXT strategy a bench hands to pext_compute_sequence_hash, applied to
\* a k-mer word
PextOf(r, kmer_word, mem) ==
    CASE r.pext = "pext_sw_bitloop_u64" -> pext_sw_bitloop_u64(kmer_word, r.pext_mask)
      [] r.pext = "pext_sw_table8_u64" -> pext_sw_table8_u64(kmer_word, r.pext_mask)
      [] r.pext = "pext_sw_block_table_u64" ->
            pext_sw_block_table_u64(kmer_word, r.pext_block_mask, mem)

\* ------------------------------------------------------------------------
\*  bench_kmer_spaced: one mask, one sequence, the comin bench and a PEXT bench
\* ------------------------------------------------------------------------

MaxK == 2

MaxExtra == 2

\* k = 31 of the CLARK masks
ClarkK == 31

\* the sizes of k-mers: small ones, those of the CLARK masks, the largest
\* that fits a word, and one that does not
KmerSizes == (1 .. MaxK) \cup { ClarkK, HalfBits, HalfBits + 1 }

\* motif repeated up to length n
Repeat(motif, n) == [ j \in 1 .. n |-> motif[((j - 1) % Len(motif)) + 1] ]

SeqMotifs ==
    { << "A" >>, << "T" >>, << "C", "A" >>, << "G", "T", "A" >>,
      << "A", "C", "G", "T", "T", "G", "C" >>,
      << "T", "T", "A", "G", "C", "C", "A", "T", "G", "G", "A" >> }

MaskMotifs ==
    { << "1" >>, << "0" >>, << "1", "0" >>, << "0", "1" >>, << "1", "1", "0" >>,
      << "0", "1", "1", "0", "1" >> }

T295_T38570 ==
    << "1", "1", "1", "1", "1", "0", "1", "0", "1", "1", "1", "0", "0", "1", "0", "1",
       "1", "0", "1", "1", "1", "0", "0", "1", "1", "0", "1", "1", "1", "1", "1" >>

\* the mask of CLARK's T295: 1111011101110010111001011011111
T295 ==
    << "1", "1", "1", "1", "0", "1", "1", "1", "0", "1", "1", "1", "0", "0", "1", "0",
       "1", "1", "1", "0", "0", "1", "0", "1", "1", "0", "1", "1", "1", "1", "1" >>

MaskStrings(k) ==
    { Repeat(m, k) : m \in MaskMotifs } \cup (IF k = ClarkK THEN { T295 } ELSE {})

PextBenches == { "pext_sw_bitloop_u64", "pext_sw_table8_u64", "pext_sw_block_table_u64" }

OthersIdle ==
    /\ HarnessIdle
    /\ have_bmi2 = FALSE
    /\ cpu_bmi2 = FALSE
    /\ rng_words = << >>
    /\ NoInstances

InitKmer ==
    /\ OthersIdle
    /\ Table8Idle
    /\ mask_gen = NoRun
    /\ \E k \in KmerSizes, extra \in 0 .. MaxExtra :
       \E mask \in MaskStrings(k), motif \in SeqMotifs, pext \in PextBenches :
           kmer_run = [ pc |-> "start", mask |-> mask, seq |-> Repeat(motif, k + extra),
                        pext |-> pext ]

\* const k = masks[m].size(); comin_prepare_mask, pext_prepare_mask and
\* pext_sw_block_table_preprocess_u64 of the mask string
PrepareMasks ==
    /\ kmer_run.pc = "start"
    /\ kmer_run' =
         IF Len(kmer_run.mask) = 0 \/ Len(kmer_run.mask) > HalfBits
         THEN [ pc |-> "invalid_argument", mask |-> kmer_run.mask ]
         ELSE LET pext_mask == pext_prepare_mask(kmer_run.mask)
              IN  [ pc |-> "prepared", mask |-> kmer_run.mask, seq |-> kmer_run.seq,
                    pext |-> kmer_run.pext, k |-> Len(kmer_run.mask),
                    comin_mask |-> comin_prepare_mask(kmer_run.mask),
                    pext_mask |-> pext_mask,
                    pext_block_mask |-> pext_sw_block_table_preprocess_u64(pext_mask).table ]
    /\ UNCHANGED << harness_vars, adaptive_vars, pext_table, thread, mask_gen >>

\* the bench "comin": comin_compute_sequence_hash with comin_compute_spaced_kmer
CallComin ==
    /\ kmer_run.pc = "prepared"
    /\ kmer_run' = [ pc |-> "comin" ] @@
                   [ comin |-> comin_compute_sequence_hash(kmer_run.k, kmer_run.comin_mask,
                                                           kmer_run.seq),
                     words |-> << >>, kmer |-> Zero64, hash |-> Zero64 ] @@ kmer_run
    /\ UNCHANGED << harness_vars, adaptive_vars, pext_table, thread, mask_gen >>

\* func( kmer ) of pext_compute_sequence_hash: hash ^= pext( kmer_word, mask )
KmerFunc(r, kmer, mem) ==
    [ r EXCEPT !.pc = "sliding", !.kmer = kmer, !.words = Append(r.words, kmer),
               !.hash = Xor64(r.hash, PextOf(r, kmer, mem)) ]

\* pext_compute_sequence_hash enters for_each_kmer_2bit: the boundary checks,
\* the first k-mer and the call of func with it
FirstKmer ==
    /\ kmer_run.pc = "comin"
    /\ \E mem \in MemChoices([ block_table_ |-> kmer_run.pext_block_mask ]) :
         kmer_run' =
           IF kmer_run.k = 0 \/ kmer_run.k > HalfBits
           THEN [ kmer_run EXCEPT !.pc = "runtime_error" ]
           ELSE IF Len(kmer_run.seq) < kmer_run.k
           THEN [ kmer_run EXCEPT !.pc = "done" ]
           ELSE KmerFunc(kmer_run, BuildKmer(kmer_run.seq, 0, kmer_run.k, 0, Zero64), mem)
    /\ UNCHANGED << harness_vars, adaptive_vars, pext_table, thread, mask_gen >>

\* one iteration of the loop that slides the window, i = Len(words)
NextKmer ==
    /\ kmer_run.pc = "sliding"
    /\ Len(kmer_run.words) <= Len(kmer_run.seq) - kmer_run.k
    /\ \E mem \in MemChoices([ block_table_ |-> kmer_run.pext_block_mask ]) :
         kmer_run' = KmerFunc(kmer_run,
                              SlideKmer(kmer_run.kmer, kmer_run.k,
                                        kmer_run.seq[Len(kmer_run.words) + kmer_run.k]),
                              mem)
    /\ UNCHANGED << harness_vars, adaptive_vars, pext_table, thread, mask_gen >>

\* the loop ends and pext_compute_sequence_hash returns hash
ReturnHash ==
    /\ kmer_run.pc = "sliding"
    /\ Len(kmer_run.words) > Len(kmer_run.seq) - kmer_run.k
    /\ kmer_run' = [ kmer_run EXCEPT !.pc = "done" ]
    /\ UNCHANGED << harness_vars, adaptive_vars, pext_table, thread, mask_gen >>

NextKmerBench ==
    \/ PrepareMasks
    \/ CallComin
    \/ FirstKmer
    \/ NextKmer
    \/ ReturnHash

SpecKmer == InitKmer /\ [][NextKmerBench]_vars

\* ------------------------------------------------------------------------
\*  CLARK: the spaced seeds of T295, T38570 and T58570
\* ------------------------------------------------------------------------

\* a hexadecimal literal: the digits ds, most significant first, followed by
\* zeros zero digits
Hex(ds, zeros) ==
    ShiftL64({ b \in Bits : /\ b < 4 * Len(ds)
                            /\ (ds[Len(ds) - (b \div 4)] \div (2 ^ (b % 4))) % 2 = 1 },
             4 * zeros)

\* _skmerR = _kmerR >> first; then for each step << shl, bits, shr >>:
\* _skmerR <<= shl; _skmerR ^= (_kmerR & low) >> shr, low the literal of
\* bits ones
RECURSIVE ClarkSteps(_, _, _, _)
ClarkSteps(kmerR, skmerR, steps, j) ==
    IF j > Len(steps) THEN skmerR
    ELSE ClarkSteps(kmerR,
                    Xor64(ShiftL64(skmerR, steps[j][1]),
                          ShiftR64(And64(kmerR, LowOnes64(steps[j][2])), steps[j][3])),
                    steps, j + 1)

\* clark_getSpacedSeed: clark_getSpacedSeedOPTSS95s2, clark_getSpacedSeedT38570
\* and clark_getSpacedSeedT58570 by the name of the setting
clark_getSpacedSeed(setting, kmerR) ==
    CASE setting = "T295" ->
            ClarkSteps(kmerR, ShiftR64(kmerR, 54),
                       << << 6, 52, 46 >>, << 6, 44, 38 >>, << 2, 34, 32 >>, << 6, 30, 24 >>,
                          << 2, 20, 18 >>, << 4, 16, 12 >>, << 10, 10, 0 >> >>, 1)
      [] setting = "T38570" ->
            ClarkSteps(kmerR, ShiftR64(kmerR, 52),
                       << << 2, 50, 48 >>, << 6, 46, 40 >>, << 2, 36, 34 >>, << 4, 32, 28 >>,
                          << 6, 26, 20 >>, << 4, 16, 12 >>, << 10, 10, 0 >> >>, 1)
      [] setting = "T58570" ->
            ClarkSteps(kmerR, ShiftR64(kmerR, 52),
                       << << 2, 50, 48 >>, << 6, 44, 38 >>, << 2, 36, 34 >>, << 4, 32, 28 >>,
                          << 4, 26, 22 >>, << 6, 18, 12 >>, << 10, 10, 0 >> >>, 1)

\* the (block mask, shift) pairs of clark_getSpacedSeedOPTSS95s2_improved
T295Blocks ==
    << [ mask |-> Hex(<< 3, 15, 15 >>, 0), shift |-> 0 ],
       [ mask |-> Hex(<< 15 >>, 3), shift |-> 2 ],
       [ mask |-> Hex(<< 12 >>, 4), shift |-> 4 ],
       [ mask |-> Hex(<< 3, 15 >>, 6), shift |-> 8 ],
       [ mask |-> Hex(<< 3 >>, 8), shift |-> 10 ],
       [ mask |-> Hex(<< 15, 12 >>, 9), shift |-> 14 ],
       [ mask |-> Hex(<< 15, 12 >>, 11), shift |-> 16 ],
       [ mask |-> Hex(<< 3, 15, 12 >>, 13), shift |-> 18 ] >>

\* those of clark_getSpacedSeedT38570_improved
T38570Blocks ==
    << [ mask |-> Hex(<< 3, 15, 15 >>, 0), shift |-> 0 ],
       [ mask |-> Hex(<< 15 >>, 3), shift |-> 2 ],
       [ mask |-> Hex(<< 3, 15 >>, 5), shift |-> 6 ],
       [ mask |-> Hex(<< 15 >>, 7), shift |-> 8 ],
       [ mask |-> Hex(<< 12 >>, 8), shift |-> 10 ],
       [ mask |-> Hex(<< 3, 15 >>, 10), shift |-> 14 ],
       [ mask |-> Hex(<< 3 >>, 12), shift |-> 16 ],
       [ mask |-> Hex(<< 3, 15, 15 >>, 13), shift |-> 18 ] >>

\* those of clark_getSpacedSeedT58570_improved
T58570Blocks ==
    << [ mask |-> Hex(<< 3, 15, 15 >>, 0), shift |-> 0 ],
       [ mask |-> Hex(<< 3, 15 >>, 3), shift |-> 2 ],
       [ mask |-> Hex(<< 3, 12 >>, 5), shift |-> 6 ],
       [ mask |-> Hex(<< 15 >>, 7), shift |-> 8 ],
       [ mask |-> Hex(<< 12 >>, 8), shift |-> 10 ],
       [ mask |-> Hex(<< 15, 12 >>, 9), shift |-> 12 ],
       [ mask |-> Hex(<< 3 >>, 12), shift |-> 16 ],
       [ mask |-> Hex(<< 3, 15, 15 >>, 13), shift |-> 18 ] >>

\* the OR of (_kmerR & mask) >> shift over the blocks
ClarkBlocks(kmerR, blocks) ==
    UNION { ShiftR64(And64(kmerR, blocks[j].mask), blocks[j].shift) : j \in DOMAIN blocks }

\* clark_getSpacedSeed_improved( _kmerR, r1, r2, r3 ), and v1 ^ v2 ^ v3
clark_getSpacedSeed_improved(kmerR) ==
    Xor64(ClarkBlocks(kmerR, T295Blocks),
          Xor64(ClarkBlocks(kmerR, T38570Blocks), ClarkBlocks(kmerR, T58570Blocks)))

\* clark_get_m_table: m_table[c] for the nucleotides.  The other symbols the
\* table knows (N and the ambiguity codes, the newline) are not in a sequence
\* over A, C, G, T.
clark_get_m_table(c) ==
    CASE c = "A" -> 3 [] c = "C" -> 2 [] c = "G" -> 1 [] c = "T" -> 0

\* clark_isFwdValid for a sequence over A, C, G, T: each symbol takes the
\* branch  kmer <<= 2; kmer ^= enc(seq[ic]); ic++; c++  until c == k or the
\* sequence ends
RECURSIVE clark_isFwdValid(_, _, _, _)
clark_isFwdValid(seq, ic, c, kmer) ==
    IF c = ClarkK \/ ic = Len(seq) THEN kmer
    ELSE clark_isFwdValid(seq, ic + 1, c + 1,
                          Xor64(ShiftL64(kmer, 2), Word(clark_get_m_table(seq[ic + 1]))))

\* one pass of the loop of clark_getObjectsDataComputeFull over the masks, for
\* the window at i: hash ^= clark_querySpacedElement( seq, i, masks[m], ... )
RECURSIVE ClarkMaskLoop(_, _, _, _)
ClarkMaskLoop(kmerR, masks, m, hash) ==
    IF m > Len(masks) THEN hash
    ELSE ClarkMaskLoop(kmerR, masks, m + 1, Xor64(hash, clark_getSpacedSeed(masks[m], kmerR)))

\* clark_improved: for_each_kmer_2bit with k = 31, the table encoding and
\* hash ^= v1 ^ v2 ^ v3 for each k-mer word
RECURSIVE ClarkImprovedLoop(_, _, _, _)
ClarkImprovedLoop(seq, i, kmer, hash) ==
    IF i > Len(seq) - ClarkK THEN hash
    ELSE LET next == SlideKmer(kmer, ClarkK, seq[i + ClarkK])
         IN  ClarkImprovedLoop(seq, i + 1, next, Xor64(hash, clark_getSpacedSeed_improved(next)))

clark_improved(seq) ==
    IF Len(seq) < ClarkK THEN Zero64
    ELSE LET first == BuildKmer(seq, 0, ClarkK, 0, Zero64)
         IN  ClarkImprovedLoop(seq, 1, first, clark_getSpacedSeed_improved(first))

\* std::vector<std::string> masks = {{ "T295", "T38570", "T58570" }}
ClarkMasks == << "T295", "T38570", "T58570" >>

InitClark ==
    /\ OthersIdle
    /\ Table8Idle
    /\ mask_gen = NoRun
    /\ \E motif \in SeqMotifs, extra \in 0 .. (MaxExtra + 1) :
         kmer_run = [ pc |-> "clark_start", seq |-> Repeat(motif, ClarkK + extra) ]

\* the bench "clark" calls clark_getObjectsDataComputeFull: the boundary
\* checks, hash = 0 and i = 0
CallClark ==
    /\ kmer_run.pc = "clark_start"
    /\ kmer_run' = IF Len(kmer_run.seq) < ClarkK
                   THEN [ pc |-> "clark", seq |-> kmer_run.seq, clark |-> Zero64 ]
                   ELSE [ pc |-> "clark_loop", seq |-> kmer_run.seq, i |-> 0, clark |-> Zero64 ]
    /\ UNCHANGED << harness_vars, adaptive_vars, pext_table, thread, mask_gen >>

\* one iteration of  for( i = 0; i <= stop; ++i )  with its loop over the masks
ClarkWindow ==
    /\ kmer_run.pc = "clark_loop"
    /\ kmer_run.i <= Len(kmer_run.seq) - ClarkK
    /\ \E kmerR \in { clark_isFwdValid(kmer_run.seq, kmer_run.i, 0, Zero64) } :
         kmer_run' = [ kmer_run EXCEPT !.i = @ + 1,
                                       !.clark = ClarkMaskLoop(kmerR, ClarkMasks, 1, @) ]
    /\ UNCHANGED << harness_vars, adaptive_vars, pext_table, thread, mask_gen >>

\* the loop ends and clark_getObjectsDataComputeFull returns hash
ClarkReturn ==
    /\ kmer_run.pc = "clark_loop"
    /\ kmer_run.i > Len(kmer_run.seq) - ClarkK
    /\ kmer_run' = [ pc |-> "clark", seq |-> kmer_run.seq, clark |-> kmer_run.clark ]
    /\ UNCHANGED << harness_vars, adaptive_vars, pext_table, thread, mask_gen >>

\* the bench "clark_improved"
CallClarkImproved ==
    /\ kmer_run.pc = "clark"
    /\ kmer_run' = [ pc |-> "clark_improved", seq |-> kmer_run.seq, clark |-> kmer_run.clark,
                     clark_improved |-> clark_improved(kmer_run.seq) ]
    /\ UNCHANGED << harness_vars, adaptive_vars, pext_table, thread, mask_gen >>

\* require_same_sinks( rs, fatal = true ) after the two benches have run
RequireSameSinks ==
    /\ kmer_run.pc = "clark_improved"
    /\ kmer_run' = [ kmer_run EXCEPT !.pc = IF kmer_run.clark_improved # kmer_run.clark
                                            THEN "exit_3" ELSE "same_sinks" ]
    /\ UNCHANGED << harness_vars, adaptive_vars, pext_table, thread, mask_gen >>

NextClark ==
    \/ CallClark
    \/ ClarkWindow
    \/ ClarkReturn
    \/ CallClarkImproved
    \/ RequireSameSinks

SpecClark == InitClark /\ [][NextClark]_vars

\* ------------------------------------------------------------------------
\*  make_input_blocks: random masks with a given number of runs
\* ------------------------------------------------------------------------

MaxSeed == 3

MaxStride == 3

\* the outcomes of the random engine that are told apart: the j-th draw of a
\* call from [lo, hi] is counted up from lo, or down from hi, by a + b*j
Engines == [ up : BOOLEAN, a : 0 .. MaxSeed, b : 0 .. MaxStride ]

\* std::uniform_int_distribution<std::size_t> d(lo, hi); d(rng)
Draw(rng, lo, hi, j) ==
    LET off == (rng.a + rng.b * j) % (hi - lo + 1)
    IN  IF rng.up THEN lo + off ELSE hi - off

\* the arguments runs of the calls: all that are feasible for W = 64, and
\* some that are not
RunArgs == 0 .. (HalfBits + 2)

\* const std::size_t max_runs = (W + 1) / 2
max_runs == (WordBits + 1) \div 2

\* k-1 draws from [0, N], sorted, the draws of the call numbered from j0
Cuts(rng, N, k, j0) ==
    SortSeq([ i \in 1 .. (k - 1) |-> Draw(rng, 0, N, j0 + i) ], LAMBDA x, y : x < y)

\* the differences of the cuts: part i (from 1) of the k parts that N is
\* split into, prev being the cut before
CutPart(cuts, N, k, i) ==
    LET prev == IF i = 1 THEN 0 ELSE cuts[i - 1]
    IN  IF i < k THEN cuts[i] - prev ELSE N - prev

\* random_positive_composition( N, k ): parts(k, 1), N -= k, and the
\* differences of the sorted cuts added
random_positive_composition(rng, N, k, j0) ==
    LET cuts == Cuts(rng, N - k, k, j0)
    IN  [ i \in 1 .. k |-> 1 + CutPart(cuts, N - k, k, i) ]

MandatoryZeros_none(runs, i) == 0

\* zero_gaps[i] = 1 for i = 1 .. runs - 1 when runs >= 2 (gap i from 0)
MandatoryZeros(runs, i) == IF runs >= 2 /\ 1 <= i /\ i <= runs - 1 THEN 1 ELSE 0

\* the zero gaps: the mandatory zeros, and remaining_zeros split into
\* gaps = runs + 1 nonnegative parts by sorted cuts (gap i from 0)
ZeroGaps(rng, Z, runs, j0) ==
    LET remaining_zeros == Z - (IF runs >= 2 THEN runs - 1 ELSE 0)
        cuts == Cuts(rng, remaining_zeros, runs + 1, j0)
    IN  [ i \in 0 .. runs |->
            MandatoryZeros(runs, i) + CutPart(cuts, remaining_zeros, runs + 1, i + 1) ]

\* put_zeros( zero_gaps[0] ), then put_ones( one_runs[i] ) and
\* put_zeros( zero_gaps[i + 1] ) for each run.  pos never decreases, so one
\* of the overflow checks fails exactly if pos ends above W.
RECURSIVE PackLoop(_, _, _, _, _)
PackLoop(one_runs, zero_gaps, i, pos, mask) ==
    IF i > Len(one_runs) THEN [ pos |-> pos, mask |-> mask ]
    ELSE PackLoop(one_runs, zero_gaps, i + 1, pos + one_runs[i] + zero_gaps[i],
                  mask \cup { b \in Bits : pos <= b /\ b < pos + one_runs[i] })

\* random_mask_with_runs<64>( runs, rng )
random_mask_with_runs(runs, rng) ==
    IF runs > max_runs THEN [ pc |-> "invalid_argument" ]
    ELSE IF runs = 0 THEN [ pc |-> "returned", mask |-> Zero64 ]
    ELSE LET min_internal_zeros == IF runs >= 2 THEN runs - 1 ELSE 0
             min_ones == runs
             max_ones == WordBits - min_internal_zeros
         IN  IF min_ones > max_ones THEN [ pc |-> "logic_error" ]
             ELSE LET K == Draw(rng, min_ones, max_ones, 0)
                      one_runs == random_positive_composition(rng, K, runs, 0)
                      zero_gaps == ZeroGaps(rng, WordBits - K, runs, runs - 1)
                      packed == PackLoop(one_runs, zero_gaps, 1, zero_gaps[0], Zero64)
                  IN  IF packed.pos # WordBits THEN [ pc |-> "logic_error" ]
                      ELSE [ pc |-> "returned", mask |-> packed.mask ]

\* count_runs: popcount( x & ~(x << 1) )
count_runs(x) == Cardinality(And64(x, Not64(ShiftL64(x, 1))))

InitRandomMask ==
    /\ OthersIdle
    /\ Table8Idle
    /\ kmer_run = NoRun
    /\ \E runs \in RunArgs, rng \in Engines :
         mask_gen = [ pc |-> "start", runs |-> runs, rng |-> rng ]

\* make_input_blocks calls random_mask_with_runs<64>( runs, rng )
CallRandomMask ==
    /\ mask_gen.pc = "start"
    /\ \E r \in { random_mask_with_runs(mask_gen.runs, mask_gen.rng) } :
         mask_gen' = r @@ [ runs |-> mask_gen.runs, rng |-> mask_gen.rng ]
    /\ UNCHANGED << harness_vars, adaptive_vars, pext_table, thread, kmer_run >>

\* the sanity check of make_input_blocks, and the push_back
CheckRuns ==
    /\ mask_gen.pc = "returned"
    /\ mask_gen' = [ mask_gen EXCEPT !.pc = IF mask_gen.runs # count_runs(mask_gen.mask)
                                            THEN "runtime_error" ELSE "pushed" ]
    /\ UNCHANGED << harness_vars, adaptive_vars, pext_table, thread, kmer_run >>

NextRandomMask ==
    \/ CallRandomMask
    \/ CheckRuns

SpecRandomMask == InitRandomMask /\ [][NextRandomMask]_vars

\* ------------------------------------------------------------------------
\*  Reference notions the properties are stated with
\* ------------------------------------------------------------------------

\* bit positions at which a maximal run of ones of mask starts
RunStarts(mask) == { b \in mask : (b - 1) \notin mask }

\* the maximal run of ones of mask that starts at s
RunAt(mask, s) == { b \in mask : b >= s /\ \A c \in s .. b : c \in mask }

CountRuns(mask) == Cardinality(RunStarts(mask))

\* start of the i-th run, counting from 0 in order of increasing start bit
NthStart(mask, i) ==
    CHOOSE s \in RunStarts(mask) : Cardinality({ t \in RunStarts(mask) : t < s }) = i

\* number of 1-bits of mask below bit s
OnesBelow(mask, s) == Cardinality({ b \in mask : b < s })

Preprocessed == in_table.called /\ in_table.error = "none"

\* the i-th set bit of mask, counting from 0 at the lowest
NthBit(mask, i) == CHOOSE b \in mask : OnesBelow(mask, b) = i

\* the reference PEXT: result bit i is the value bit at the i-th set bit of
\* mask for i below the number n of set bits, and 0 for i >= n
ReferencePext(value, mask) ==
    { i \in Bits : i < Cardinality(mask) /\ NthBit(mask, i) \in value }

Called(fn) == last_call.called /\ last_call.fn = fn

\* ------------------------------------------------------------------------
\*  Properties of the strategies and of the preprocessing
\* ------------------------------------------------------------------------

\* C1: for every mask with 0..32 runs and every value, the block-table
\* strategy applied to the preprocessed table returns what
\* pext_sw_bitloop_u64 returns for (value, mask).
C1_BlockTableEqualsBitloop ==
    (last_call.called /\ last_call.fn = "pext_sw_block_table")
        => last_call.ret = pext_sw_bitloop_u64(in_value, in_mask)

\* C8: the preprocessing stores exactly r entries for a mask with r maximal
\* runs, in order of increasing start bit, the i-th entry's mask being the
\* i-th maximal run, and the OR of the entry masks is the mask.
C8_TableHoldsExactlyTheRuns ==
    Preprocessed =>
        LET r == CountRuns(in_mask)
            t == in_table.table
        IN  /\ in_table.arr_idx = r
            /\ \A i \in TableIdx :
                 t.masks[i] = IF i < r THEN RunAt(in_mask, NthStart(in_mask, i)) ELSE Zero64
            /\ UNION { t.masks[i] : i \in TableIdx } = in_mask

C8_Witness ==
    /\ Preprocessed
    /\ CountRuns(in_mask) = 3
    /\ in_table.table.masks[2] = { 7, 8 }
    /\ in_table.table.masks[3] = Zero64

\* C9: the shift stored for a run is start - out_pos, out_pos being the number
\* of 1-bits of the mask in all lower runs, and out_pos <= start.
C9_ShiftIsStartMinusOutPos ==
    Preprocessed =>
        \A i \in TableIdx :
            i < CountRuns(in_mask) =>
                LET start   == NthStart(in_mask, i)
                    out_pos == OnesBelow(in_mask, start)
                IN  /\ out_pos <= start
                    /\ in_table.table.shifts[i] = start - out_pos

C9_Witness ==
    /\ Preprocessed
    /\ CountRuns(in_mask) >= 2
    /\ in_table.table.shifts[1] = 2
    /\ in_table.table.shifts[0] = 1

\* C10: the preprocessing throws only for a mask of more than 32 runs and
\* never counts a 33rd entry; whenever it returns, every maximal run of the
\* mask is an entry of the table.
C10_NoRunDropped ==
    in_table.called =>
        /\ (in_table.error # "none") <=> (CountRuns(in_mask) > TableSize)
        /\ in_table.arr_idx <= TableSize
        /\ in_table.error = "none" =>
             \A s \in RunStarts(in_mask) :
                 \E i \in TableIdx : in_table.table.masks[i] = RunAt(in_mask, s)

C10_Witness ==
    /\ Preprocessed
    /\ CountRuns(in_mask) = TableSize
    /\ in_table.arr_idx = TableSize
    /\ in_table.table.masks[TableSize - 1] # Zero64

\* C11: for every value and mask pext_sw_bitloop_u64 returns the reference
\* PEXT (result bit i is the value bit at the i-th set bit of the mask, the
\* bits from popcount(mask) on are 0), and its loop runs popcount(mask) times.
C11_BitloopIsReference ==
    Called("pext_sw_bitloop") =>
        /\ last_call.ret = ReferencePext(in_value, in_mask)
        /\ last_call.stop = Cardinality(in_mask)

C11_Witness ==
    /\ Called("pext_sw_bitloop")
    /\ in_mask = RunPattern(1, 2, 1, 3)
    /\ in_value = Stripe(1)
    /\ last_call.ret = { 0, 3, 4 }
    /\ last_call.stop = 6

\* C12: for every value and mask pext_sw_split32_u64 returns the reference
\* PEXT of the 64-bit inputs, also when the low half of the mask has 32 or
\* no set bits.
C12_Split32IsReference ==
    Called("pext_sw_split32") =>
        last_call.ret = ReferencePext(in_value, in_mask)

C12_Witness ==
    /\ Called("pext_sw_split32")
    /\ in_mask = ShiftL64(AllOnes64, HalfBits)
    /\ in_value = Stripe(1)
    /\ last_call.ret = { b \in 0 .. (HalfBits - 1) : b % 2 = 1 }

\* C13: for every value and mask pext_sw_table8_u64, going through the 8
\* bytes from low to high with table[mask_byte][value_byte] shifted by the
\* running sum of popcnt[mask_byte], returns the reference PEXT.
C13_Table8IsReference ==
    Called("pext_sw_table8") =>
        last_call.ret = ReferencePext(in_value, in_mask)

C13_Witness ==
    /\ Called("pext_sw_table8")
    /\ in_mask = RunPattern(1, 2, 1, TableSize)
    /\ in_value = Stripe(3)
    /\ last_call.ret # Zero64

\* C14: for every value and mask pext64_emu returns the reference PEXT, in
\* the branches for popcount 0 .. 7 and in the carry-less-multiply branch
\* for popcount >= 8.
C14_EmuIsReference ==
    Called("pext64_emu") =>
        last_call.ret = ReferencePext(in_value, in_mask)

C14_Witness ==
    /\ Called("pext64_emu")
    /\ in_mask = RunPattern(1, 2, 2, TableSize)
    /\ Cardinality(in_mask) > MaxSparse
    /\ in_value = Stripe(2)
    /\ last_call.ret # Zero64

\* the strategies that take (value, mask) or the table preprocessed from mask
SoftwareStrategies ==
    { "pext_sw_bitloop", "pext_sw_split32", "pext_sw_table8", "pext64_emu",
      "pext_sw_block_table" }

\* C15: for mask 0 and every value, each of pext_sw_bitloop_u64,
\* pext_sw_split32_u64, pext_sw_table8_u64, pext64_emu and
\* pext_sw_block_table_u64 on the table preprocessed from 0 returns 0.
C15_ZeroMaskGivesZero ==
    (last_call.called /\ last_call.fn \in SoftwareStrategies /\ in_mask = Zero64)
        => last_call.ret = Zero64

C15_Witness ==
    /\ Called("pext_sw_block_table")
    /\ in_mask = Zero64
    /\ in_value = AllOnes64
    /\ last_call.ret = Zero64
    /\ last_call.stop = 0

\* C16: for the all-ones mask and every value, each of the five strategies
\* returns the value unchanged; the table preprocessed from ~0 is a single
\* run of 64 bits with shift 0.
C16_FullMaskGivesValue ==
    /\ (last_call.called /\ last_call.fn \in SoftwareStrategies /\ in_mask = AllOnes64)
           => last_call.ret = in_value
    /\ (Preprocessed /\ in_mask = AllOnes64)
           => /\ in_table.arr_idx = 1
              /\ in_table.table.masks[0] = AllOnes64
              /\ in_table.table.shifts[0] = 0

C16_Witness ==
    /\ Called("pext_sw_block_table")
    /\ in_mask = AllOnes64
    /\ in_value = Stripe(3)
    /\ last_call.ret = Stripe(3)
    /\ last_call.stop = 1

\* C17: for every table preprocessed from a mask of 0 to 32 runs and every
\* value, the appliers unrolled by 2, 4 and 8 return exactly what the
\* non-unrolled pext_sw_block_table_u64 returns on the same value and table.
C17_UnrolledEqualsBlockTable ==
    Called("pext_sw_block_table_unrolled") =>
        \A mem \in MemChoices([ block_table_ |-> in_table.table ]) :
            last_call.ret = pext_sw_block_table_u64(in_value, in_table.table, mem)

\* C18: in a build without BMI2 support every entry point of the hardware
\* strategy, the free function pext_hw_bmi2_u64 and an AdaptivePext bound to
\* kPext, fails with an error when it is invoked and returns no value.
C18_HardwareFailsWithoutBmi2 ==
    ~have_bmi2 =>
        /\ Called("pext_hw_bmi2") => last_call.kind # "value"
        /\ \A i \in Inst :
              (obj[i].pext_func_ = "pext_hw_bmi2_u64_" /\ ret[i].called)
                  => ret[i].kind # "value"

\* ------------------------------------------------------------------------
\*  Properties of the AdaptivePext dispatcher
\* ------------------------------------------------------------------------

\* the wrapper that belongs to each mode
ModeWrapper ==
    (kPext :> "pext_hw_bmi2_u64_") @@ (kByteTable :> "pext_sw_byte_table_")
    @@ (kBlockTable :> "pext_sw_block_table_u64_")
    @@ (kBlockTableUnrolled2 :> "pext_sw_block_table_u64_unrolled2_")
    @@ (kBlockTableUnrolled4 :> "pext_sw_block_table_u64_unrolled4_")
    @@ (kBlockTableUnrolled8 :> "pext_sw_block_table_u64_unrolled8_")

Tuned(i) == obj[i].state = "bound" /\ obj[i].req_mode = kAutomatic

\* C2: in automatic tuning, whenever a candidate's accumulated sum differs
\* from the sum of the first candidate that was run, the constructor raises
\* the inconsistency error: tuning never goes on past a candidate whose sum
\* differs from the first one.
C2_MismatchRaises ==
    \A i \in Inst :
        obj[i].state = "tuning" =>
            \A c \in DOMAIN tune[i].cand_accu :
                tune[i].cand_accu[c] = tune[i].cand_accu[first_mode]

\* C3: in automatic tuning the hardware candidate kPext is set and run only
\* when bmi2_enabled() holds at runtime; when it does not, tuning starts at
\* kByteTable.
C3_HardwareOnlyWithBmi2 ==
    \A i \in Inst :
        obj[i].req_mode = kAutomatic =>
            /\ (obj[i].state = "tuning" /\ ~bmi2_enabled /\ tune[i].cand_time = << >>)
                   => tune[i].m = kByteTable
            /\ obj[i].pext_func_ = ModeWrapper[kPext] => bmi2_enabled

\* C4: when automatic tuning completes, the mode the instance is bound to is
\* a candidate that was run, no candidate that was run took less time, and
\* the bound function is the wrapper of that mode.
C4_FastestIsBound ==
    [][ \A i \in Inst :
          (obj[i].state = "tuning" /\ obj'[i].state = "bound") =>
              LET ct   == tune[i].cand_time
                  mode == obj'[i].mode_
              IN  /\ mode \in DOMAIN ct
                  /\ \A c \in DOMAIN ct : ct[mode] <= ct[c]
                  /\ obj'[i].pext_func_ = ModeWrapper[mode] ]_vars

C4_Witness ==
    /\ Tuned("a")
    /\ obj["a"].mode_ = kBlockTableUnrolled4
    /\ obj["a"].pext_func_ = "pext_sw_block_table_u64_unrolled4_"

\* C5: whenever the constructor has returned normally, for any mask and any
\* requested mode, mode() is one of the six strategies and not kAutomatic.
C5_NeverAutomatic ==
    \A i \in Inst :
        obj[i].state = "bound" =>
            /\ obj[i].mode_ # kAutomatic
            /\ obj[i].mode_ \in kPext .. kBlockTableUnrolled8

C5_Witness ==
    /\ Tuned("a")
    /\ obj["a"].mode_ = kByteTable
    /\ ret["a"].called

\* C6: two instances constructed for the same mask, each by its own tuning,
\* return the same result for the same value, whichever modes they selected.
C6_SameMaskSameResult ==
    ( /\ Tuned("a") /\ Tuned("b")
      /\ obj["a"].mask_ = obj["b"].mask_
      /\ ret["a"].called /\ ret["b"].called
      /\ ret["a"].value = ret["b"].value )
        => /\ ret["a"].kind = ret["b"].kind
           /\ ret["a"].ret = ret["b"].ret

\* C7: constructing an instance in automatic mode never raises the
\* inconsistency error, for any mask.
C7_NeverInconsistent ==
    \A i \in Inst : obj[i].error # "inconsistent"

\* C19: on a default-constructed instance every call of operator() raises an
\* error and returns no value, for every value and after any number of calls.
C19_DefaultInstanceThrows ==
    \A i \in Inst :
        (obj[i].state = "default" /\ ret[i].called)
            => /\ ret[i].kind # "value"
               /\ ret[i].kind = "invalid_argument"

C19_Witness ==
    /\ obj["a"].state = "default"
    /\ obj["a"].mode_ = kByteTable
    /\ ret["a"].called
    /\ ret["a"].value = AllOnes64
    /\ ret["a"].kind = "invalid_argument"

\* the members of an instance
Members(o) == << o.mask_, o.block_table_, o.mode_, o.pext_func_ >>

\* C20: once an instance is constructed for a mask, no public operation on it
\* (operator(), mode(), mode_name(), copy or move assignment) changes its
\* mask, block table, mode or bound function.
C20_ImmutableAfterConstruction ==
    [][ \A i \in Inst :
          obj[i].state = "bound" =>
              /\ obj'[i].state = "bound"
              /\ Members(obj'[i]) = Members(obj[i]) ]_vars

\* C21: under any interleaving of calls of pext_sw_table8_u64 from several
\* threads, concurrent first calls included, the PextTable8 is constructed
\* exactly once, no call reads an entry before the construction has
\* completed, and no entry is written after it.
C21_Table8BuiltOnce ==
    /\ [](/\ pext_table.ctors <= 1
          /\ \A t \in Threads :
                thread[t].pc = "loop" =>
                    /\ pext_table.guard = "complete"
                    /\ pext_table.ctors = 1
                    /\ pext_table.rows = TableRows)
    /\ [][pext_table.guard = "complete" => pext_table' = pext_table]_vars

C21_Witness ==
    /\ thread[1].pc = "loop"
    /\ thread[1].i = ByteBits
    /\ thread[2].pc = "loop"
    /\ thread[2].i = 1
    /\ pext_table.ctors = 1
    /\ pext_table.rows = TableRows

\* ------------------------------------------------------------------------
\*  Properties of the k-mer extraction and of the spaced k-mer hashes
\* ------------------------------------------------------------------------

KmerRunning == kmer_run.pc \in { "sliding", "done" }

\* C22: for a mask string of length k in 1..32 and a sequence over A, C, G, T
\* of length >= k, pext_compute_sequence_hash with a PEXT strategy returns
\* what comin_compute_sequence_hash returns: after every window the XOR of
\* the PEXT results equals the XOR of the comin spaced k-mers so far.
C22_PextHashIsCominHash ==
    KmerRunning =>
        /\ kmer_run.hash = CominHashLoop(kmer_run.comin_mask, kmer_run.seq, 0,
                                         Len(kmer_run.words) - 1, Zero64)
        /\ kmer_run.pc = "done" => kmer_run.hash = kmer_run.comin

C22_Witness ==
    /\ kmer_run.pc = "done"
    /\ kmer_run.mask = T295
    /\ kmer_run.pext = "pext_sw_block_table_u64"
    /\ Len(kmer_run.words) = 3
    /\ kmer_run.hash # Zero64
    /\ kmer_run.hash = kmer_run.comin

\* C23: for the T295 mask string the table preprocessed from
\* pext_prepare_mask has exactly 8 non-zero entries, whose (mask, shift)
\* pairs are the 8 pairs of clark_getSpacedSeedOPTSS95s2_improved, and whose
\* run lengths sum to 44.
C23_T295TableIsClarkBlocks ==
    (kmer_run.pc \in { "prepared", "comin", "sliding", "done" } /\ kmer_run.mask = T295) =>
        LET t == kmer_run.pext_block_mask
        IN  /\ \A i \in TableIdx :
                 IF i < Len(T295Blocks)
                 THEN /\ t.masks[i] = T295Blocks[i + 1].mask
                      /\ t.shifts[i] = T295Blocks[i + 1].shift
                 ELSE t.masks[i] = Zero64
            /\ Len(T295Blocks) = 8
            /\ Cardinality(UNION { t.masks[i] : i \in TableIdx }) = 44

C23_Witness ==
    /\ kmer_run.pc = "prepared"
    /\ kmer_run.mask = T295
    /\ kmer_run.pext_block_mask.shifts[7] = 18
    /\ kmer_run.pext_block_mask.masks[8] = Zero64

\* C24: for k in 1..32 and a sequence of length n >= k, for_each_kmer_2bit
\* calls func n-k+1 times in the order of the windows, and the i-th call gets
\* what for_each_kmer_2bit_reextract hands to its i-th call: the encoding of
\* seq[i..i+k-1] in the lowest 2k bits, all higher bits 0, also for k = 32.
C24_RollingIsReextract ==
    KmerRunning =>
        LET ref == for_each_kmer_2bit_reextract(kmer_run.seq, kmer_run.k)
        IN  /\ Len(kmer_run.words) <= Len(ref)
            /\ \A j \in 1 .. Len(kmer_run.words) :
                 /\ kmer_run.words[j] = ref[j]
                 /\ kmer_run.words[j] \subseteq LowOnes64(2 * kmer_run.k)
            /\ kmer_run.pc = "done" => Len(kmer_run.words) = Len(kmer_run.seq) - kmer_run.k + 1

C24_Witness ==
    /\ kmer_run.pc = "done"
    /\ kmer_run.k = HalfBits
    /\ Len(kmer_run.words) = 3
    /\ (WordBits - 1) \in kmer_run.words[3]
    /\ kmer_run.words[3] # kmer_run.words[2]

\* C25: for a sequence over A, C, G, T of length >= 31,
\* clark_getObjectsDataComputeFull(seq, {T295, T38570, T58570}) returns the
\* XOR checksum that clark_improved(seq) returns.
C25_ClarkChecksumsAgree ==
    kmer_run.pc \in { "clark_improved", "exit_3", "same_sinks" }
        => kmer_run.clark = kmer_run.clark_improved

\* C26: for W = 64, every runs in 0..32 and every outcome of the random
\* draws, random_mask_with_runs returns, without an error, a mask with exactly
\* runs maximal runs of ones, which is what count_runs counts; for runs > 32
\* it throws invalid_argument.
C26_MaskHasRuns ==
    /\ mask_gen.pc \in { "returned", "pushed", "runtime_error", "logic_error", "invalid_argument" } =>
         IF mask_gen.runs > HalfBits
         THEN mask_gen.pc = "invalid_argument"
         ELSE /\ mask_gen.pc \in { "returned", "pushed" }
              /\ CountRuns(mask_gen.mask) = mask_gen.runs
              /\ count_runs(mask_gen.mask) = mask_gen.runs

C26_Witness ==
    /\ mask_gen.pc = "pushed"
    /\ mask_gen.runs = HalfBits
    /\ Cardinality(mask_gen.mask) = HalfBits
    /\ (WordBits - 1) \notin mask_gen.mask

\* ------------------------------------------------------------------------
\*  Properties of the loops of the strategies and of the tuning order
\* ------------------------------------------------------------------------

\* C27: for every table the preprocessing produces, pext_sw_block_table_u64
\* reads pb.masks[i] and pb.shifts[i] only at i in 0..31: the sentinel loop
\* never evaluates an index of 32 or more.
C27_SentinelStaysInTable ==
    Called("pext_sw_block_table") => last_call.stop < TableSize

\* C28: when several candidates have the same minimal time, the one that
\* comes first in the trial order is bound; a later candidate replaces the
\* best one only if its time is strictly smaller.
C28_FirstOfTiesIsBound ==
    [][ \A i \in Inst :
          /\ (obj[i].state = "tuning" /\ obj'[i].state = "bound") =>
                 LET ct == tune[i].cand_time
                 IN  \A c \in DOMAIN ct :
                         ct[c] = ct[obj'[i].mode_] => obj'[i].mode_ <= c
          /\ (obj[i].state = "tuning" /\ obj'[i].state = "tuning"
                /\ tune[i].best_time.finite
                /\ tune'[i].best_mode # tune[i].best_mode) =>
                 /\ tune'[i].best_mode = tune[i].m
                 /\ tune'[i].best_time.t < tune[i].best_time.t ]_vars

C28_Witness ==
    /\ obj["a"].state = "tuning"
    /\ tune["a"].m = kBlockTableUnrolled2
    /\ tune["a"].cand_time[kByteTable] = 1
    /\ tune["a"].cand_time[kBlockTable] = 1
    /\ tune["a"].best_mode = kByteTable

\* C29: in pext_sw_table8_u64 the running shift, when a byte's partial result
\* is shifted by it, is the popcount of the lower mask bytes and at most 56,
\* and the shifted partial results of different bytes lie in disjoint ranges
\* of output bits.
C29_Table8ShiftIsPopcount ==
    Called("pext_sw_table8") =>
        LET tr == Table8Trace(in_value, in_mask, 0, 0, << >>)
            range(i) == { b \in Bits : /\ tr[i].shift <= b
                                       /\ b < tr[i].shift + Cardinality(ByteOf(in_mask, i - 1)) }
        IN  /\ Len(tr) = ByteBits
            /\ \A i \in 1 .. ByteBits :
                 /\ tr[i].shift = Cardinality({ b \in in_mask : b < ByteBits * (i - 1) })
                 /\ tr[i].shift <= WordBits - ByteBits
                 /\ ShiftL64(tr[i].part, tr[i].shift) \subseteq range(i)
                 /\ \A j \in 1 .. (i - 1) : range(i) \cap range(j) = {}
            /\ last_call.ret = UNION { ShiftL64(tr[i].part, tr[i].shift) : i \in 1 .. ByteBits }

C29_Witness ==
    /\ Called("pext_sw_table8")
    /\ in_mask = AllOnes64
    /\ (WordBits - 1) \in last_call.ret
    /\ Table8Trace(in_value, in_mask, 0, 0, << >>)[ByteBits].shift = WordBits - ByteBits

\* C30: in every table the preprocessing returns for a mask with r runs, the
\* entries 0..r-1 have non-zero, pairwise disjoint masks and the entries
\* r..31 have mask 0 and shift 0, so that for r < 32 the sentinel loop of
\* pext_sw_block_table_u64 ends after exactly r iterations.
C30_EntriesThenZeros ==
    Preprocessed =>
        LET r == CountRuns(in_mask)
            t == in_table.table
        IN  /\ \A i \in TableIdx :
                 IF i < r
                 THEN /\ t.masks[i] # Zero64
                      /\ \A j \in 0 .. (i - 1) : t.masks[i] \cap t.masks[j] = {}
                 ELSE t.masks[i] = Zero64 /\ t.shifts[i] = 0
            /\ (Called("pext_sw_block_table") /\ r < TableSize) => last_call.stop = r

C30_Witness ==
    /\ Called("pext_sw_block_table")
    /\ CountRuns(in_mask) = TableSize - 1
    /\ last_call.stop = TableSize - 1
    /\ in_table.table.masks[TableSize - 2] # Zero64
    /\ in_table.table.masks[TableSize - 1] = Zero64

====
